---- MODULE Spec2Model ----
(***************************************************************************)
(* Block device abstraction of ganeti (lib/bdev.py): the BlockDev          *)
(* lifecycle, the LogicalVolume, DRBD8 and FileStorage drivers and the     *)
(* DRBD8 attach reconciliation, over a small node: two logical volumes,    *)
(* one backing file and MinorCount DRBD minors.                            *)
(*                                                                         *)
(* Every method is an operator from (kernel, object, failing tools) to a   *)
(* record [k, o, r, log]: the kernel afterwards, the object afterwards,    *)
(* the value returned (or the error raised) and the commands and child     *)
(* calls issued, in order.  An optional value (None in the source) is a    *)
(* set: {} when absent, {v} when present.                                  *)
(***************************************************************************)
EXTENDS Integers, Sequences, FiniteSets, TLC

VARIABLES kern, dev, last, trees, probe

vars == <<kern, dev, last, trees, probe>>

(***************************************************************************)
(* Bounds                                                                  *)
(***************************************************************************)
\* number of DRBD minors the kernel module offers (its minor_count)
MinorCount == 2
\* at most this many tools fail during one operation
MaxFail == 1

Minors == 0 .. (MinorCount - 1)

(***************************************************************************)
(* Optional values                                                         *)
(***************************************************************************)
None == {}
Some(x) == {x}
The(s) == CHOOSE x \in s : TRUE

(***************************************************************************)
(* Results                                                                 *)
(***************************************************************************)
RTrue == "True"
RFalse == "False"
RNone == "None"
\* a module-level function returned the device object
RDevice == "device"
\* errors.BlockDeviceError, by the place that raises it
ErrWrongPeer == "BlockDeviceError:wrong-peer-cannot-disconnect"
ErrPrimary == "BlockDeviceError:cannot-make-primary"
ErrNoMinor == "BlockDeviceError:no-free-minor"
ErrNoFile == "BlockDeviceError:file-does-not-exist"
ErrMetaAttach == "BlockDeviceError:cannot-attach-meta"
ErrMetaSize == "BlockDeviceError:invalid-meta-size"
ErrInitMeta == "BlockDeviceError:cannot-init-meta"
ErrBadMeta == "BlockDeviceError:meta-not-valid"
ErrLvCreate == "BlockDeviceError:lvcreate"
ErrFileCreate == "BlockDeviceError:file-create"
ErrNoDevice == "BlockDeviceError:no-valid-block-device"
\* the errors AddChildren, RemoveChildren and Rename raise on their own
Err == [rename |-> "BlockDeviceError:failed-to-rename",
             unbound |-> "BlockDeviceError:cannot-attach-during-children-change",
             two |-> "BlockDeviceError:need-two-devices",
             attached |-> "BlockDeviceError:already-attached-to-a-local-disk",
             ready |-> "BlockDeviceError:children-not-ready",
             local |-> "BlockDeviceError:cannot-attach-to-local-storage",
             mismatch |-> "BlockDeviceError:mismatch-in-local-storage",
             detach |-> "BlockDeviceError:cannot-detach-local-storage"]
BlockDeviceErrors == {Err[x] : x \in DOMAIN Err} \cup {ErrWrongPeer, ErrPrimary, ErrNoMinor, ErrNoFile,
                      ErrMetaAttach, ErrMetaSize, ErrInitMeta, ErrBadMeta,
                      ErrLvCreate, ErrFileCreate, ErrNoDevice}
\* errors.ProgrammerError
ErrProgrammer == "ProgrammerError"
Errors == BlockDeviceErrors \cup {ErrProgrammer}
IsErr(r) == r \in Errors
BoolRes(b) == IF b THEN RTrue ELSE RFalse

Res(k, o, r, log) == [k |-> k, o |-> o, r |-> r, log |-> log]

\* one entry of the log: a tool invocation, or a method call on a child
Cmd(tool, target) == [k |-> "cmd", t |-> target, a |-> tool, r |-> ""]
Call(method, name) == [k |-> "call", t |-> name, a |-> method, r |-> ""]
Ret(method, name, r) == [k |-> "ret", t |-> name, a |-> method, r |-> r]

(***************************************************************************)
(* Tools that may fail for reasons outside the model (utils.RunCmd         *)
(* returning failed)                                                       *)
(***************************************************************************)
FailKinds == {"lvdisplay", "lvchange", "lvcreate", "lvremove", "fopen", "unlink",
              "blockdev", "create-md", "dstate", "disk", "net", "poll",
              "disconnect", "down", "primary", "detach"}
FailSets(kinds) == {s \in SUBSET kinds : Cardinality(s) <= MaxFail}

(***************************************************************************)
(* Identities                                                              *)
(***************************************************************************)
FilePath == "/srv/f"
LvPath(name) == "/dev/vg/" \o name
\* the block device numbers lvdisplay reports for an active volume
LvMajor == 253
LvMinorOf(name) == IF name = "b" THEN 0 ELSE 1

\* (local_host:local_port, remote_host:remote_port)
E1 == [l |-> "A:11000", r |-> "B:11000"]
\* same local end, another peer
E2 == [l |-> "A:11000", r |-> "C:11000"]
\* another pair altogether
E3 == [l |-> "A:11001", r |-> "B:11001"]

(***************************************************************************)
(* Objects: BlockDev.__init__                                              *)
(***************************************************************************)
BlockDev(type, name, ep, kids) ==
  [type |-> type, name |-> name, ep |-> ep, kids |-> kids,
   dev_path |-> None, major |-> None, minor |-> None]

(***************************************************************************)
(* The node: LVM, the filesystem and the DRBD kernel module, as the tools  *)
(* invoked through utils.RunCmd see and change them                        *)
(***************************************************************************)
\* a minor that /proc/drbd does not list
NoMinor == [listed |-> FALSE, disk |-> None, net |-> None, vis |-> FALSE,
            primary |-> FALSE]

\* /proc/drbd shows "cs:Unconfigured" for a minor with no disk, no net and
\* the secondary role; anything else counts as used in _GetUsedDevs
Configured(mr) == mr.disk # None \/ mr.net # None \/ mr.primary
Used(k, n) == n \in Minors /\ k.minors[n].listed /\ Configured(k.minors[n])

SetMinor(k, n, mr) == [k EXCEPT !.minors[n] = mr]

\* lvchange -ay: fails on a volume that does not exist
KLvChange(k, name, f) ==
  LET ok == "lvchange" \notin f /\ k.lv[name] # "absent"
  IN  [ok |-> ok, k |-> IF ok THEN [k EXCEPT !.lv[name] = "active"] ELSE k]

\* lvcreate: fails on a name that exists; the new volume is active
KLvCreate(k, name, f) ==
  LET ok == "lvcreate" \notin f /\ k.lv[name] = "absent"
  IN  [ok |-> ok, k |-> IF ok THEN [k EXCEPT !.lv[name] = "active"] ELSE k]

\* lvremove -f: fails on a volume that does not exist or that a DRBD minor
\* holds open
KLvRemove(k, name, f) ==
  LET held == \E j \in Minors : \E d \in k.minors[j].disk :
                "/dev/vg/" \o name \in {d.dev, d.meta}
      ok == "lvremove" \notin f /\ k.lv[name] # "absent" /\ ~held
  IN  [ok |-> ok, k |-> IF ok THEN [k EXCEPT !.lv[name] = "absent"] ELSE k]

\* drbdmeta create-md writes fresh metadata on the meta device
KCreateMd(k, meta, f) ==
  LET ok == "create-md" \notin f
  IN  [ok |-> ok, k |-> IF ok THEN [k EXCEPT !.md = @ \cup {meta}] ELSE k]

\* drbdmeta dstate: succeeds on initialised metadata
KDstate(k, meta, f) == "dstate" \notin f /\ meta \in k.md

\* drbdsetup disk: the kernel claims the backing and the meta device, so it
\* refuses a minor that has a disk and a device another minor holds
KDisk(k, n, backing, meta, f) ==
  LET free == \A j \in Minors :
                \A d \in k.minors[j].disk : {d.dev, d.meta} \cap {backing, meta} = {}
      ok == /\ "disk" \notin f
            /\ n \in Minors
            /\ k.minors[n].disk = None
            /\ free
  IN  [ok |-> ok,
       k |-> IF ok
             THEN SetMinor(k, n, [k.minors[n] EXCEPT
                                    !.listed = TRUE,
                                    !.disk = Some([dev |-> backing, meta |-> meta])])
             ELSE k]

\* drbdsetup net: the kernel refuses a local address another minor uses.
\* "poll" in f: the new addresses are not reported by drbdsetup show yet.
KNet(k, n, ep, f) ==
  LET free == \A j \in Minors \ {n} : \A e \in k.minors[j].net : e.l # ep.l
      ok == "net" \notin f /\ n \in Minors /\ free
  IN  [ok |-> ok,
       k |-> IF ok
             THEN SetMinor(k, n, [k.minors[n] EXCEPT
                                    !.listed = TRUE,
                                    !.net = Some(ep),
                                    !.vis = "poll" \notin f])
             ELSE k]

\* drbdsetup disconnect
KDisconnect(k, n, f) ==
  LET ok == "disconnect" \notin f /\ n \in Minors
  IN  [ok |-> ok,
       k |-> IF ok
             THEN SetMinor(k, n, [k.minors[n] EXCEPT !.net = None, !.vis = FALSE])
             ELSE k]

\* drbdsetup detach: the kernel lets the disk of a minor go; "If we don't
\* have a remote device, this operation will fail"
KDetach(k, n, f) ==
  LET ok == /\ "detach" \notin f /\ n \in Minors
            /\ k.minors[n].disk # None /\ k.minors[n].net # None
  IN  [ok |-> ok,
       k |-> IF ok THEN SetMinor(k, n, [k.minors[n] EXCEPT !.disk = None]) ELSE k]

\* drbdsetup down
KDown(k, n, f) ==
  LET ok == "down" \notin f /\ n \in Minors
  IN  [ok |-> ok,
       k |-> IF ok
             THEN SetMinor(k, n, [NoMinor EXCEPT !.listed = k.minors[n].listed])
             ELSE k]

\* drbdsetup primary: only a configured minor can be promoted
KPrimary(k, n, f) ==
  LET ok == "primary" \notin f /\ n \in Minors /\ Configured(k.minors[n])
  IN  [ok |-> ok,
       k |-> IF ok THEN SetMinor(k, n, [k.minors[n] EXCEPT !.primary = TRUE]) ELSE k]

(***************************************************************************)
(* LogicalVolume                                                           *)
(***************************************************************************)
\* Attach: lvdisplay, then the "Block device M:N" line of an active volume
MatchesNoLine(k, o, f) == Res(k, o, RFalse, <<>>)

LV_Attach(k, o, f) ==
  IF "lvdisplay" \in f \/ k.lv[o.name] = "absent"
  THEN Res(k, o, RFalse, <<>>)
  ELSE IF k.lv[o.name] = "active"
       THEN Res(k, [o EXCEPT !.major = Some(LvMajor),
                             !.minor = Some(LvMinorOf(o.name))], RTrue, <<>>)
       ELSE Res(k, o, RFalse, <<>>)

\* __init__: dev_path is derived from the unique_id, then Attach
LV_New(k, name, f) ==
  LET Attached(a) == Res(a.k, a.o, RNone, a.log)
  IN  Attached(LV_Attach(k, [BlockDev("lv", name, None, <<>>)
                               EXCEPT !.dev_path = Some(LvPath(name))], f))

LV_Assemble(k, o, f) ==
  LET Changed(c) == Res(c.k, o, BoolRes(c.ok), <<Cmd("lvchange", The(o.dev_path))>>)
  IN  Changed(KLvChange(k, o.name, f))

\* a Shutdown that deactivates the volume
DeactivatesVolume(k, o, f) ==
  Res([k EXCEPT !.lv[o.name] = IF @ = "active" THEN "inactive" ELSE @], o, RTrue,
      <<Cmd("lvchange", The(o.dev_path))>>)

\* Shutdown: "a no-op for the LV device type"
LV_Shutdown(k, o, f) == Res(k, o, RTrue, <<>>)

LV_Open(k, o, f) == Res(k, o, RNone, <<>>)

\* Create: lvcreate (no PV information, too little space and a failing
\* lvcreate all raise), then the constructor
LV_Create(k, name, f) ==
  LET Built(n) == Res(n.k, n.o, RTrue, <<Cmd("lvcreate", LvPath(name))>> \o n.log)
      Created(c) ==
        IF ~c.ok
        THEN Res(c.k, BlockDev("lv", name, None, <<>>), ErrLvCreate,
                 <<Cmd("lvcreate", LvPath(name))>>)
        ELSE Built(LV_New(c.k, name, f))
  IN  Created(KLvCreate(k, name, f))

\* Remove: "if not self.minor and not self.Attach()" (a minor of 0 counts as
\* not set), then lvremove -f
LV_Remove(k, o, f) ==
  LET Removed(c, a) ==
        Res(c.k, a.o, BoolRes(c.ok), <<Cmd("lvremove", The(o.dev_path))>>)
      Attached(a) ==
        IF a.r # RTrue THEN Res(a.k, a.o, RTrue, <<>>)
        ELSE Removed(KLvRemove(a.k, o.name, f), a)
  IN  Attached(IF o.minor \in {None, Some(0)} THEN LV_Attach(k, o, f)
               ELSE Res(k, o, RTrue, <<>>))

(***************************************************************************)
(* FileStorage                                                             *)
(***************************************************************************)
\* __init__: dev_path is unique_id[1]; no Attach
File_New(k, f) ==
  Res(k, [BlockDev("file", FilePath, None, <<>>) EXCEPT !.dev_path = Some(FilePath)],
      RNone, <<>>)

File_Attach(k, o, f) == Res(k, o, BoolRes(k.file), <<>>)

File_Assemble(k, o, f) ==
  IF ~k.file THEN Res(k, o, ErrNoFile, <<>>) ELSE Res(k, o, RTrue, <<>>)

File_Shutdown(k, o, f) == Res(k, o, RTrue, <<>>)

File_Open(k, o, f) == Res(k, o, RNone, <<>>)

\* Remove: nothing to do for a path that does not exist, else os.remove
File_Remove(k, o, f) ==
  IF ~k.file THEN Res(k, o, RTrue, <<>>)
  ELSE IF "unlink" \in f THEN Res(k, o, RFalse, <<Cmd("unlink", FilePath)>>)
  ELSE Res([k EXCEPT !.file = FALSE], o, RTrue, <<Cmd("unlink", FilePath)>>)

File_Create(k, f) ==
  IF "fopen" \in f
  THEN Res(k, BlockDev("file", FilePath, None, <<>>), ErrFileCreate, <<>>)
  ELSE LET Built(n) == Res(n.k, n.o, RTrue, <<Cmd("truncate", FilePath)>>)
       IN  Built(File_New([k EXCEPT !.file = TRUE], f))

(***************************************************************************)
(* BaseDRBD / DRBD8: what the driver reads from the kernel                 *)
(***************************************************************************)
DRBD_MAJOR == 147
MAX_MINORS == 255

DevPath(minor) == "/dev/drbd" \o ToString(minor)

\* the path a command line gets for a device
PathOf(o) == IF o.dev_path = None THEN "None" ELSE The(o.dev_path)

RECURSIVE Ascending(_)
Ascending(S) ==
  IF S = {} THEN <<>>
  ELSE LET m == CHOOSE x \in S : \A y \in S : x <= y
       IN  <<m>> \o Ascending(S \ {m})

\* _GetUsedDevs: the minors of /proc/drbd whose state is not Unconfigured,
\* visited in ascending order
GetUsedDevs(k) == Ascending({n \in Minors : Used(k, n)})

\* the minor lines of /proc/drbd, "N: cs:State", in the order of the file
ProcData(k) ==
  LET Lines(listed) ==
        [i \in DOMAIN listed |->
           [minor |-> listed[i],
            cs |-> IF Configured(k.minors[listed[i]])
                   THEN "Connected" ELSE "Unconfigured"]]
  IN  Lines(Ascending({n \in Minors : k.minors[n].listed}))

\* an allocator that takes one past the highest minor listed, whatever the
\* states
IgnoresUnconfigured(data, i, highest) ==
  LET top == CHOOSE x \in DOMAIN data :
               \A y \in DOMAIN data : data[y].minor <= data[x].minor
  IN  IF data = <<>> THEN [err |-> FALSE, n |-> 0]
      ELSE IF data[top].minor >= MAX_MINORS THEN [err |-> TRUE, n |-> 0]
      ELSE [err |-> FALSE, n |-> data[top].minor + 1]

\* an allocator that returns the first minor listed, in use or not, when
\* some minor is Unconfigured
ReturnsFirstGap(data, i, highest) ==
  IF data = <<>> THEN [err |-> FALSE, n |-> 0]
  ELSE IF \E x \in DOMAIN data : data[x].cs = "Unconfigured"
  THEN [err |-> FALSE, n |-> data[1].minor]
  ELSE [err |-> FALSE, n |-> data[Len(data)].minor + 1]

\* an allocator with no upper limit
NeverRunsOut(data, i, highest) ==
  LET top == CHOOSE x \in DOMAIN data :
               \A y \in DOMAIN data : data[y].minor <= data[x].minor
      free == {x \in DOMAIN data : data[x].cs = "Unconfigured"}
  IN  IF free # {}
      THEN [err |-> FALSE,
            n |-> data[CHOOSE x \in free : \A y \in free : x <= y].minor]
      ELSE IF data = <<>> THEN [err |-> FALSE, n |-> 0]
      ELSE [err |-> FALSE, n |-> data[top].minor + 1]

\* the loop of _FindUnusedMinor over the lines from the i-th on: the first
\* line that reads Unconfigured ends it; after the last line, 0 when no
\* minor was seen, an error when the highest seen is _MAX_MINORS or more,
\* else one past the highest
RECURSIVE ScanProcData(_, _, _)
ScanProcData(data, i, highest) ==
  IF i > Len(data)
  THEN IF highest = None THEN [err |-> FALSE, n |-> 0]
       ELSE IF The(highest) >= MAX_MINORS THEN [err |-> TRUE, n |-> 0]
       ELSE [err |-> FALSE, n |-> The(highest) + 1]
  ELSE IF data[i].cs = "Unconfigured" THEN [err |-> FALSE, n |-> data[i].minor]
  ELSE ScanProcData(data, i + 1,
                    IF highest # None /\ The(highest) > data[i].minor
                    THEN highest ELSE Some(data[i].minor))

FindUnusedMinor(k) == ScanProcData(ProcData(k), 1, None)

\* _GetDevInfo(_GetShowData(minor)): the keys drbdsetup show yields
NoInfo == [local_dev |-> None, meta_dev |-> None, meta_index |-> None,
           local_addr |-> None, remote_addr |-> None]
GetDevInfo(k, minor) ==
  IF minor \notin Minors THEN NoInfo
  ELSE LET mr == k.minors[minor]
           shown == mr.net # None /\ mr.vis
       IN  [local_dev |-> {d.dev : d \in mr.disk},
            meta_dev |-> {d.meta : d \in mr.disk},
            meta_index |-> {0 : d \in mr.disk},
            local_addr |-> IF shown THEN {e.l : e \in mr.net} ELSE None,
            remote_addr |-> IF shown THEN {e.r : e \in mr.net} ELSE None]

\* a local comparison that accepts any disk for a device without children
AcceptsAnyDiskWhenDiskless(o, info) ==
  o.kids # <<>> =>
    /\ info.local_dev # None /\ info.local_dev = o.kids[1].dev_path
    /\ info.meta_dev # None /\ info.meta_dev = o.kids[2].dev_path
    /\ info.meta_index # None /\ info.meta_index = Some(0)

MatchesLocal(o, info) ==
  LET has == o.kids # <<>>
      l == IF has
           THEN info.local_dev # None /\ info.local_dev = o.kids[1].dev_path
           ELSE info.local_dev = None
      m == IF has
           THEN /\ info.meta_dev # None /\ info.meta_dev = o.kids[2].dev_path
                /\ info.meta_index # None /\ info.meta_index = Some(0)
           ELSE info.meta_dev = None /\ info.meta_index = None
  IN  l /\ m

\* a net comparison that looks at the local address only
ComparesLocalAddress(o, info) ==
  o.ep # None /\ info.local_addr = Some(The(o.ep).l)

MatchesNet(o, info) ==
  IF o.ep = None /\ info.local_addr = None /\ info.remote_addr = None THEN TRUE
  ELSE IF o.ep = None THEN FALSE
  ELSE IF ~(info.local_addr # None /\ info.remote_addr # None) THEN FALSE
  ELSE info.local_addr = Some(The(o.ep).l) /\ info.remote_addr = Some(The(o.ep).r)

\* a Rename that takes the new name whatever lvrename says
RenamesAnyway(k, o, new_id, f) ==
  Res(k, [o EXCEPT !.name = new_id[Len(new_id)],
                   !.dev_path = Some(LvPath(new_id[Len(new_id)]))],
      IF "lvrename" \in f THEN Err.rename ELSE RNone, <<>>)

\* Rename: new_id is (vg_name, lv_name); lvrename fails on its own, for a
\* volume that is not there and for a name that is taken
LV_Rename(k, o, new_id, f) ==
  LET vg_name == "vg"
      new_name == new_id[2]
      ok == /\ "lvrename" \notin f /\ {o.name, new_name} \subseteq DOMAIN k.lv
            /\ k.lv[o.name] # "absent" /\ k.lv[new_name] = "absent"
      log == <<Cmd("lvrename", o.name)>>
  IN  IF Len(new_id) # 2 THEN Res(k, o, ErrProgrammer, <<>>)
      ELSE IF new_id[1] # vg_name THEN Res(k, o, ErrProgrammer, <<>>)
      ELSE IF ~ok THEN Res(k, o, Err.rename, log)
      ELSE Res([k EXCEPT !.lv[new_name] = k.lv[o.name], !.lv[o.name] = "absent"],
               [o EXCEPT !.name = new_name, !.dev_path = Some(LvPath(new_name))],
               RNone, log)

\* BaseDRBD.Rename: "This is not supported for drbd devices"
DRBD8_Rename(k, o, new_id, f) == Res(k, o, ErrProgrammer, <<>>)

(***************************************************************************)
(* DRBD8: commands                                                         *)
(***************************************************************************)
\* what a drbdsetup command on a minor leaves: [k, ok, log]
Issue(c, tool, minor) ==
  [k |-> c.k, ok |-> c.ok, log |-> <<Cmd(tool, DevPath(minor))>>]

\* _ShutdownNet / _ShutdownAll
IgnoresDisconnectFailure(k, minor, f) ==
  [Issue(KDisconnect(k, minor, f), "disconnect", minor) EXCEPT !.ok = TRUE]

ShutdownNet(k, minor, f) == Issue(KDisconnect(k, minor, f), "disconnect", minor)

ShutdownAll(k, minor, f) == Issue(KDown(k, minor, f), "down", minor)

\* _AssembleNet: with an endpoint missing, disconnect; else drbdsetup net and
\* the poll of drbdsetup show for our addresses
PollNeverSees(k, minor, ep, f) ==
  IF ep = None THEN ShutdownNet(k, minor, f)
  ELSE [Issue(KNet(k, minor, The(ep), f), "net", minor) EXCEPT !.ok = FALSE]

AssembleNet(k, minor, ep, f) ==
  IF ep = None THEN ShutdownNet(k, minor, f)
  ELSE LET Seen(info) == /\ info.local_addr # None /\ info.remote_addr # None
                         /\ info.local_addr = Some(The(ep).l)
                         /\ info.remote_addr = Some(The(ep).r)
           Polled(c) == [Issue(c, "net", minor)
                           EXCEPT !.ok = c.ok /\ Seen(GetDevInfo(c.k, minor))]
       IN  Polled(KNet(k, minor, The(ep), f))

\* _IsValidMeta: True, False or the error of _FindUnusedMinor
IsValidMeta(k, meta, f) ==
  IF FindUnusedMinor(k).err THEN ErrNoMinor ELSE BoolRes(KDstate(k, meta, f))

\* _AssembleLocal: [k, r, log]
AssembleLocal(k, minor, backend, meta, f) ==
  LET Attached(c) ==
        [k |-> c.k, r |-> BoolRes(c.ok), log |-> <<Cmd("disk", DevPath(minor))>>]
      Checked(v) ==
        IF v # RTrue THEN [k |-> k, r |-> v, log |-> <<>>]
        ELSE Attached(KDisk(k, minor, backend, meta, f))
  IN  Checked(IsValidMeta(k, meta, f))

\* _SetFromMinor
SetFromMinor(o, minor) ==
  IF minor = None
  THEN [o EXCEPT !.minor = None, !.dev_path = None]
  ELSE [o EXCEPT !.minor = minor, !.dev_path = Some(DevPath(The(minor)))]

\* a scan that attaches the network of the first minor in use, whatever
\* drbdsetup show reports of it
NetsFirstMinor(k, o, f, todo, log) ==
  IF todo = <<>> THEN [k |-> k, r |-> "else", minor |-> None, log |-> log]
  ELSE LET Done(a) ==
             [k |-> a.k, log |-> log \o a.log,
              r |-> IF a.ok THEN "break" ELSE "else",
              minor |-> IF a.ok THEN Some(Head(todo)) ELSE None]
       IN  Done(AssembleNet(k, Head(todo), o.ep, f))

(***************************************************************************)
(* DRBD8.Attach                                                            *)
(***************************************************************************)
\* a scan that binds the first minor in use once drbdsetup net was tried
\* on it, whatever came of it
BindsWithoutReread(k, o, f, todo, log) ==
  IF todo = <<>> THEN [k |-> k, r |-> "else", minor |-> None, log |-> log]
  ELSE LET Tried(a) == [k |-> a.k, r |-> "break", minor |-> Some(Head(todo)),
                        log |-> log \o a.log]
       IN  Tried(AssembleNet(k, Head(todo), o.ep, f))

\* the loop over the used minors: [k, r, minor, log], r "break" with the
\* minor bound, "else" when the loop ran out, or the error raised
RECURSIVE AttachLoop(_, _, _, _, _)
AttachLoop(k, o, f, todo, log) ==
  IF todo = <<>> THEN [k |-> k, r |-> "else", minor |-> None, log |-> log]
  ELSE
    LET minor == Head(todo)
        Bound(kk, ll) == [k |-> kk, r |-> "break", minor |-> Some(minor), log |-> ll]
        Continue(kk, ll) == AttachLoop(kk, o, f, Tail(todo), ll)
        \* ... and reconnect to our peer
        Reconnected(a4, ll) ==
          IF a4.ok /\ MatchesNet(o, GetDevInfo(a4.k, minor))
          THEN Bound(a4.k, ll \o a4.log)
          ELSE Continue(a4.k, ll \o a4.log)
        \* local storage is ours and the network points somewhere else:
        \* disconnect ...
        Disconnected(d4, ll) ==
          IF ~d4.ok
          THEN [k |-> d4.k, r |-> ErrWrongPeer, minor |-> None, log |-> ll \o d4.log]
          ELSE Reconnected(AssembleNet(d4.k, minor, o.ep, f), ll \o d4.log)
        \* the third and the fourth test, on the info read at the top
        Weakest(info, match_l, match_r, kk, ll) ==
          IF match_r /\ info.local_dev = None THEN Bound(kk, ll)
          ELSE IF /\ match_l /\ info.local_dev # None
                  /\ ~match_r /\ info.local_addr # None
          THEN Disconnected(ShutdownNet(kk, minor, f), ll)
          ELSE Continue(kk, ll)
        \* local storage is ours and no network is set up: attach the network
        Partial(a2, info, match_l, match_r) ==
          IF a2.ok /\ MatchesNet(o, GetDevInfo(a2.k, minor))
          THEN Bound(a2.k, log \o a2.log)
          ELSE Weakest(info, match_l, match_r, a2.k, log \o a2.log)
        Matched(info, match_l, match_r) ==
          IF match_l /\ match_r THEN Bound(k, log)
          ELSE IF match_l /\ ~match_r /\ info.local_addr = None
          THEN Partial(AssembleNet(k, minor, o.ep, f), info, match_l, match_r)
          ELSE Weakest(info, match_l, match_r, k, log)
        Shown(info) == Matched(info, MatchesLocal(o, info), MatchesNet(o, info))
    IN  Shown(GetDevInfo(k, minor))

DRBD8_Attach(k, o, f) ==
  LET Scanned(l) ==
        IF IsErr(l.r) THEN Res(l.k, o, l.r, l.log)
        ELSE Res(l.k, SetFromMinor(o, l.minor), BoolRes(l.minor # None), l.log)
  IN  Scanned(AttachLoop(k, o, f, GetUsedDevs(k), <<>>))

\* __init__: no children when one of them is None, major fixed, Attach
DRBD8_New(k, name, ep, kids, f) ==
  LET o0 == [BlockDev("drbd", name, ep, kids) EXCEPT !.major = Some(DRBD_MAJOR)]
      Attached(a) ==
        IF IsErr(a.r) THEN Res(a.k, o0, a.r, a.log) ELSE Res(a.k, a.o, RNone, a.log)
  IN  Attached(DRBD8_Attach(k, o0, f))

(***************************************************************************)
(* DRBD8.Open, DRBD8.Shutdown                                              *)
(***************************************************************************)
\* "if self.minor is None and not self.Attach()"
AttachIfUnbound(k, o, f) ==
  IF o.minor = None THEN DRBD8_Attach(k, o, f) ELSE Res(k, o, RTrue, <<>>)

DRBD8_Open(k, o, f) ==
  LET Promoted(a, c) ==
        Res(c.k, a.o, IF c.ok THEN RNone ELSE ErrPrimary,
            a.log \o <<Cmd("primary", PathOf(a.o))>>)
      Attached(a) ==
        IF IsErr(a.r) THEN a
        ELSE IF a.r = RFalse THEN Res(a.k, a.o, RFalse, a.log)
        ELSE Promoted(a, KPrimary(a.k, The(a.o.minor), f))
  IN  Attached(AttachIfUnbound(k, o, f))

\* a Shutdown that shuts the children down as well
ShutsChildrenToo(k, o, f) ==
  Res([k EXCEPT !.lv = [n \in DOMAIN k.lv |->
                          IF n \in {o.kids[i].name : i \in DOMAIN o.kids}
                             /\ k.lv[n] = "active"
                          THEN "inactive" ELSE k.lv[n]]],
      [o EXCEPT !.minor = None, !.dev_path = None], RTrue,
      [i \in DOMAIN o.kids |-> Call("Shutdown", o.kids[i].name)])

KeepsDevPath(k, o, f) ==
  LET Down(a, c) ==
        IF ~c.ok THEN Res(c.k, a.o, RFalse, a.log \o c.log)
        ELSE Res(c.k, [a.o EXCEPT !.minor = None], RTrue, a.log \o c.log)
      Attached(a) ==
        IF IsErr(a.r) THEN a
        ELSE IF a.r = RFalse THEN Res(a.k, a.o, RTrue, a.log)
        ELSE Down(a, ShutdownAll(a.k, The(a.o.minor), f))
  IN  Attached(AttachIfUnbound(k, o, f))

\* a Shutdown that forgets the minor and keeps the path
ForgetsMinorOnly(k, o, f) ==
  LET Down(a, c) ==
        IF ~c.ok THEN Res(c.k, a.o, RFalse, a.log \o c.log)
        ELSE Res(c.k, [a.o EXCEPT !.minor = None], RTrue, a.log \o c.log)
      Attached(a) ==
        IF IsErr(a.r) THEN a
        ELSE IF a.r = RFalse THEN Res(a.k, a.o, RTrue, a.log)
        ELSE Down(a, ShutdownAll(a.k, The(a.o.minor), f))
  IN  Attached(AttachIfUnbound(k, o, f))

\* a Shutdown that clears minor and dev_path whatever drbdsetup down says
ClearsOnFailedDown(k, o, f) ==
  LET Down(a, c) ==
        Res(c.k, [a.o EXCEPT !.minor = None, !.dev_path = None], BoolRes(c.ok),
            a.log \o c.log)
      Attached(a) ==
        IF IsErr(a.r) THEN a
        ELSE IF a.r = RFalse THEN Res(a.k, a.o, RTrue, a.log)
        ELSE Down(a, ShutdownAll(a.k, The(a.o.minor), f))
  IN  Attached(AttachIfUnbound(k, o, f))

DRBD8_Shutdown(k, o, f) ==
  LET Down(a, c) ==
        IF ~c.ok THEN Res(c.k, a.o, RFalse, a.log \o c.log)
        ELSE Res(c.k, [a.o EXCEPT !.minor = None, !.dev_path = None], RTrue,
                 a.log \o c.log)
      Attached(a) ==
        IF IsErr(a.r) THEN a
        ELSE IF a.r = RFalse THEN Res(a.k, a.o, RTrue, a.log)
        ELSE Down(a, ShutdownAll(a.k, The(a.o.minor), f))
  IN  Attached(AttachIfUnbound(k, o, f))

\* Remove: "return self.Shutdown()"
DRBD8_Remove(k, o, f) == DRBD8_Shutdown(k, o, f)

(***************************************************************************)
(* Dispatch on the class of the object                                     *)
(***************************************************************************)
Dev_Remove(k, o, f) ==
  CASE o.type = "lv" -> LV_Remove(k, o, f)
    [] o.type = "file" -> File_Remove(k, o, f)
    [] o.type = "drbd" -> DRBD8_Remove(k, o, f)

Dev_Attach(k, o, f) ==
  CASE o.type = "lv" -> LV_Attach(k, o, f)
    [] o.type = "file" -> File_Attach(k, o, f)
    [] o.type = "drbd" -> DRBD8_Attach(k, o, f)

Dev_Open(k, o, f) ==
  CASE o.type = "lv" -> LV_Open(k, o, f)
    [] o.type = "file" -> File_Open(k, o, f)
    [] o.type = "drbd" -> DRBD8_Open(k, o, f)

Dev_Shutdown(k, o, f) ==
  CASE o.type = "lv" -> LV_Shutdown(k, o, f)
    [] o.type = "file" -> File_Shutdown(k, o, f)
    [] o.type = "drbd" -> DRBD8_Shutdown(k, o, f)

(***************************************************************************)
(* BlockDev.Assemble and DRBD8.Assemble                                    *)
(***************************************************************************)
RECURSIVE Dev_Assemble(_, _, _)

\* "for child in self._children: child.Shutdown()", from child i on; an
\* error raised by a Shutdown ends the loop and propagates
ShutsNoChildDown(k, o, f, i, log) == Res(k, o, RNone, log)

RECURSIVE ShutdownChildren(_, _, _, _, _)
ShutdownChildren(k, o, f, i, log) ==
  IF i > Len(o.kids) THEN Res(k, o, RNone, log)
  ELSE LET child == o.kids[i]
           Shut(s) ==
             LET o1 == [o EXCEPT !.kids[i] = s.o]
                 log1 == log \o <<Call("Shutdown", child.name)>> \o s.log
                             \o <<Ret("Shutdown", child.name, s.r)>>
             IN  IF IsErr(s.r) THEN Res(s.k, o1, s.r, log1)
                 ELSE ShutdownChildren(s.k, o1, f, i + 1, log1)
       IN  Shut(Dev_Shutdown(k, child, f))

\* "except errors.BlockDeviceError: ...Shutdown()...; raise": what leaves
\* Assemble once the children were shut down (down) after Open raised err
SwallowsError(down, err) ==
  Res(down.k, down.o, IF IsErr(down.r) THEN down.r ELSE RFalse, down.log)

ReRaise(down, err) ==
  Res(down.k, down.o, IF IsErr(down.r) THEN down.r ELSE err, down.log)

\* a loop that opens the child whatever its Assemble returned
OpensRegardless(k, o, f, i, log) ==
  IF i > Len(o.kids) THEN Res(k, o, RTrue, log)
  ELSE LET child == o.kids[i]
           Assembled(a) ==
             Res(a.k, o, a.r,
                 log \o <<Call("Assemble", child.name)>> \o a.log
                     \o <<Ret("Assemble", child.name, a.r),
                          Call("Open", child.name), Ret("Open", child.name, RNone)>>)
       IN  Assembled(Dev_Assemble(k, child, f))

\* the loop of BlockDev.Assemble from child i on, status still True
RECURSIVE AssembleChildren(_, _, _, _, _)
AssembleChildren(k, o, f, i, log) ==
  IF i > Len(o.kids) THEN Res(k, o, RTrue, log)
  ELSE
    LET child == o.kids[i]
        \* status false: the loop was left, all children were shut down
        Failed(down) ==
          Res(down.k, down.o, IF IsErr(down.r) THEN down.r ELSE RFalse, down.log)
        Opened(p, log1) ==
          LET o2 == [o EXCEPT !.kids[i] = p.o]
              log2 == log1 \o <<Call("Open", child.name)>> \o p.log
                           \o <<Ret("Open", child.name, p.r)>>
          IN  \* Open raised BlockDeviceError: shut all children down, re-raise
              IF p.r \in BlockDeviceErrors
              THEN ReRaise(ShutdownChildren(p.k, o2, f, 1, log2), p.r)
              ELSE IF IsErr(p.r) THEN Res(p.k, o2, p.r, log2)
              ELSE AssembleChildren(p.k, o2, f, i + 1, log2)
        Assembled(a) ==
          LET o1 == [o EXCEPT !.kids[i] = a.o]
              log1 == log \o <<Call("Assemble", child.name)>> \o a.log
                          \o <<Ret("Assemble", child.name, a.r)>>
          IN  IF IsErr(a.r) THEN Res(a.k, o1, a.r, log1)
              ELSE IF a.r # RTrue THEN Failed(ShutdownChildren(a.k, o1, f, 1, log1))
              ELSE Opened(Dev_Open(a.k, a.o, f), log1)
    IN  Assembled(Dev_Assemble(k, child, f))

BlockDev_Assemble(k, o, f) == AssembleChildren(k, o, f, 1, <<>>)

\* DRBD8.Assemble once the children are assembled (b: what
\* BlockDev.Assemble left, log: what was issued so far): find a minor,
\* attach the local disk, attach the network, record the minor
RecordsTooEarly(b, f, log) ==
  LET has_local == b.o.kids # <<>>
      Set(minor) == SetFromMinor(b.o, Some(minor))
      TornDown(t, minor, ll) == Res(t.k, Set(minor), RFalse, ll \o t.log)
      Net(n, minor, ll) ==
        IF n.ok THEN Res(n.k, Set(minor), RTrue, ll \o n.log)
        ELSE IF has_local THEN TornDown(ShutdownAll(n.k, minor, f), minor, ll \o n.log)
        ELSE Res(n.k, Set(minor), RFalse, ll \o n.log)
      Local(l, minor) ==
        IF IsErr(l.r) THEN Res(l.k, Set(minor), l.r, log \o l.log)
        ELSE IF l.r # RTrue THEN Res(l.k, Set(minor), RFalse, log \o l.log)
        ELSE IF b.o.ep # None
        THEN Net(AssembleNet(l.k, minor, b.o.ep, f), minor, log \o l.log)
        ELSE Res(l.k, Set(minor), RTrue, log \o l.log)
      Found(u) ==
        IF u.err THEN Res(b.k, b.o, ErrNoMinor, log)
        ELSE Local(IF has_local
                   THEN AssembleLocal(b.k, u.n, PathOf(b.o.kids[1]),
                                      PathOf(b.o.kids[2]), f)
                   ELSE [k |-> b.k, r |-> RTrue, log |-> <<>>], u.n)
  IN  Found(FindUnusedMinor(b.k))

ConfigureMinor(b, f, log) ==
  LET has_local == b.o.kids # <<>>
      \* net setup failed: the local device was torn down, failures ignored
      TornDown(t, ll) == Res(t.k, b.o, RFalse, ll \o t.log)
      Net(n, minor, ll) ==
        IF n.ok THEN Res(n.k, SetFromMinor(b.o, Some(minor)), RTrue, ll \o n.log)
        ELSE IF has_local THEN TornDown(ShutdownAll(n.k, minor, f), ll \o n.log)
        ELSE Res(n.k, b.o, RFalse, ll \o n.log)
      Local(l, minor) ==
        IF IsErr(l.r) THEN Res(l.k, b.o, l.r, log \o l.log)
        ELSE IF l.r # RTrue THEN Res(l.k, b.o, RFalse, log \o l.log)
        ELSE IF b.o.ep # None
        THEN Net(AssembleNet(l.k, minor, b.o.ep, f), minor, log \o l.log)
        ELSE Res(l.k, SetFromMinor(b.o, Some(minor)), RTrue, log \o l.log)
      Found(u) ==
        IF u.err THEN Res(b.k, b.o, ErrNoMinor, log)
        ELSE Local(IF has_local
                   THEN AssembleLocal(b.k, u.n, PathOf(b.o.kids[1]),
                                      PathOf(b.o.kids[2]), f)
                   ELSE [k |-> b.k, r |-> RTrue, log |-> <<>>], u.n)
  IN  Found(FindUnusedMinor(b.k))

DRBD8_Assemble(k, o, f) ==
  LET Children(b, log) ==
        IF b.r # RTrue THEN Res(b.k, b.o, b.r, log \o b.log)
        ELSE ConfigureMinor(b, f, log \o b.log)
      Attached(a) ==
        IF IsErr(a.r) THEN a
        ELSE IF a.o.minor # None THEN Res(a.k, a.o, RTrue, a.log)
        ELSE Children(BlockDev_Assemble(a.k, a.o, f), a.log)
  IN  Attached(DRBD8_Attach(k, o, f))

Dev_Assemble(k, o, f) ==
  CASE o.type = "lv" -> LV_Assemble(k, o, f)
    [] o.type = "file" -> File_Assemble(k, o, f)
    [] o.type = "drbd" -> DRBD8_Assemble(k, o, f)

(***************************************************************************)
(* DRBD8.Create                                                            *)
(***************************************************************************)
\* _CheckMetaSize: blockdev --getsize fails or reports a size out of range
CheckMetaSize(k, meta, f) == "blockdev" \notin f

DRBD8_Create(k, name, ep, kids, f) ==
  LET none == BlockDev("drbd", name, ep, kids)
      meta == kids[2]
      Built(n, log) ==
        IF IsErr(n.r) THEN Res(n.k, none, n.r, log \o n.log)
        ELSE Res(n.k, n.o, RTrue, log \o n.log)
      Validated(v, c, at, log) ==
        IF IsErr(v) THEN Res(c.k, none, v, log)
        ELSE IF v # RTrue THEN Res(c.k, none, ErrBadMeta, log)
        ELSE Built(DRBD8_New(c.k, name, ep, [kids EXCEPT ![2] = at.o], f), log)
      Initialised(c, at, log) ==
        IF ~c.ok THEN Res(c.k, none, ErrInitMeta, log)
        ELSE Validated(IsValidMeta(c.k, PathOf(at.o), f), c, at, log)
      Attached(at, log) ==
        IF IsErr(at.r) THEN Res(at.k, none, at.r, log \o at.log)
        ELSE IF at.r # RTrue THEN Res(at.k, none, ErrMetaAttach, log \o at.log)
        ELSE IF ~CheckMetaSize(at.k, PathOf(at.o), f)
        THEN Res(at.k, none, ErrMetaSize, log \o at.log)
        ELSE IF FindUnusedMinor(at.k).err
        THEN Res(at.k, none, ErrNoMinor, log \o at.log)
        ELSE Initialised(KCreateMd(at.k, PathOf(at.o), f), at,
                         log \o at.log \o <<Cmd("create-md", PathOf(at.o))>>)
      \* the status meta.Assemble() returns is not looked at
      Assembled(as) ==
        LET log1 == <<Call("Assemble", meta.name)>> \o as.log
                      \o <<Ret("Assemble", meta.name, as.r)>>
        IN  IF IsErr(as.r) THEN Res(as.k, none, as.r, log1)
            ELSE Attached(Dev_Attach(as.k, as.o, f), log1)
  IN  IF Len(kids) # 2 THEN Res(k, none, ErrProgrammer, <<>>)
      ELSE Assembled(Dev_Assemble(k, meta, f))

(***************************************************************************)
(* DRBD8.AddChildren, DRBD8.RemoveChildren                                 *)
(***************************************************************************)
\* an AddChildren that writes the metadata a second time
InitialisesTwice(k, o, devices, f) ==
  IF Len(devices) # 2 THEN Res(k, o, Err.two, <<>>)
  ELSE Res(KCreateMd(k, PathOf(devices[2]), f).k, o, ErrInitMeta,
           <<Cmd("create-md", PathOf(devices[2])), Cmd("create-md", PathOf(devices[2]))>>)

\* an AddChildren that records the new children before the local attach
SwapsChildrenFirst(k, o, devices, f) ==
  IF o.minor = None THEN Res(k, o, Err.unbound, <<>>)
  ELSE IF Len(devices) # 2 THEN Res(k, o, Err.two, <<>>)
  ELSE IF GetDevInfo(k, The(o.minor)).local_dev # None
  THEN Res(k, o, Err.attached, <<>>)
  ELSE Res(k, [o EXCEPT !.kids = devices], Err.local, <<>>)

DRBD8_AddChildren(k, o, devices, f) ==
  LET backend == devices[1]
      meta == devices[2]
      Local(l, o1, log) ==
        IF IsErr(l.r) THEN Res(l.k, o1, l.r, log \o l.log)
        ELSE IF l.r # RTrue THEN Res(l.k, o1, Err.local, log \o l.log)
        ELSE Res(l.k, [o1 EXCEPT !.kids = devices], RNone, log \o l.log)
      Validated(v, c, o1, log) ==
        IF IsErr(v) THEN Res(c.k, o1, v, log)
        ELSE IF v # RTrue THEN Res(c.k, o1, ErrBadMeta, log)
        ELSE Local(AssembleLocal(c.k, The(o.minor), PathOf(backend), PathOf(meta), f),
                   o1, log)
      Initialised(c, o1, log) ==
        IF ~c.ok THEN Res(c.k, o1, ErrInitMeta, log)
        ELSE Validated(IsValidMeta(c.k, PathOf(meta), f), c, o1, log)
      Sized(kk, log) ==
        IF ~CheckMetaSize(kk, PathOf(meta), f) THEN Res(kk, o, ErrMetaSize, log)
        ELSE IF FindUnusedMinor(kk).err THEN Res(kk, o, ErrNoMinor, log)
        ELSE Initialised(KCreateMd(kk, PathOf(meta), f), o,
                         log \o <<Cmd("create-md", PathOf(meta))>>)
      \* "backend.Open()", "meta.Open()": the objects passed are the
      \* caller's, an error of Open propagates
      OpenedMeta(p, log) ==
        IF IsErr(p.r) THEN Res(p.k, o, p.r, log \o p.log)
        ELSE Sized(p.k, log \o p.log \o <<Ret("Open", meta.name, p.r)>>)
      OpenedBackend(p, log) ==
        IF IsErr(p.r) THEN Res(p.k, o, p.r, log \o p.log)
        ELSE OpenedMeta(Dev_Open(p.k, meta, f),
                        log \o p.log \o <<Ret("Open", backend.name, p.r),
                                         Call("Open", meta.name)>>)
  IN  IF o.minor = None THEN Res(k, o, Err.unbound, <<>>)
      ELSE IF Len(devices) # 2 THEN Res(k, o, Err.two, <<>>)
      ELSE IF GetDevInfo(k, The(o.minor)).local_dev # None
      THEN Res(k, o, Err.attached, <<>>)
      ELSE IF backend.dev_path = None \/ meta.dev_path = None
      THEN Res(k, o, Err.ready, <<>>)
      ELSE OpenedBackend(Dev_Open(k, backend, f), <<Call("Open", backend.name)>>)

\* a RemoveChildren that forgets the children whatever detach says
ForgetsChildrenAnyway(k, o, devices, f) ==
  IF o.minor = None THEN Res(k, o, Err.unbound, <<>>)
  ELSE Res(k, [o EXCEPT !.kids = <<>>], RNone, <<>>)

\* devices: the paths the caller passes; a children list holds two objects
\* or nothing, never None
DRBD8_RemoveChildren(k, o, devices, f) ==
  LET \* _ShutdownLocal
      ShutdownLocal(minor) == Issue(KDetach(k, minor, f), "detach", minor)
      Detached(d) ==
        IF ~d.ok THEN Res(d.k, o, Err.detach, d.log)
        ELSE Res(d.k, [o EXCEPT !.kids = <<>>], RNone, d.log)
  IN  IF o.minor = None THEN Res(k, o, Err.unbound, <<>>)
      ELSE IF GetDevInfo(k, The(o.minor)).local_dev = None THEN Res(k, o, RNone, <<>>)
      ELSE IF Len(o.kids) # 2 THEN Res(k, o, Err.two, <<>>)
      ELSE IF Len(devices) # 2 THEN Res(k, o, Err.two, <<>>)
      ELSE IF \E i \in 1 .. 2 : Some(devices[i]) # o.kids[i].dev_path
      THEN Res(k, o, Err.mismatch, <<>>)
      ELSE Detached(ShutdownLocal(The(o.minor)))

(***************************************************************************)
(* The device trees a caller works with, and the module-level entry points *)
(***************************************************************************)
\* lv, lvm, file: the leaves on their own (volume b, volume m, the file).
\* M1, M2: a mirror over (b, m), towards one peer or another.  D1, D3: diskless mirrors.  T: a mirror whose
\* backing device is itself a (diskless) mirror.  D0: a mirror without
\* children and without endpoints.
Leaves == {"lv", "lvm", "file"}
\* the trees one caller manages on its node
Scopes == {{"lv", "lvm", "file"}, {"M1", "M2"}, {"M1", "D1"}, {"D1", "D3"}, {"T"}}

EndpointOf(tree) ==
  CASE tree \in {"M1", "D1"} -> Some(E1)
    [] tree = "M2" -> Some(E2)
    [] tree \in {"D3", "T"} -> Some(E3)
    [] tree = "D0" -> None

\* the constructors of the children, first to last: [k, kids, r, log]
NewChildren(k, tree, f) ==
  LET Both(x, y) ==
        [k |-> y.k, kids |-> <<x.o, y.o>>, r |-> x.r, log |-> x.log \o y.log]
      First(x) == Both(x, LV_New(x.k, "m", f))
  IN  IF tree \in {"M1", "M2"} THEN First(LV_New(k, "b", f))
      ELSE IF tree = "T" THEN First(DRBD8_New(k, "X", Some(E1), <<>>, f))
      ELSE [k |-> k, kids |-> <<>>, r |-> RNone, log |-> <<>>]

\* what a constructor or Create (n) leaves after the children (c)
Top(c, n) == Res(n.k, n.o, n.r, c.log \o n.log)
NoTop(c, tree) == Res(c.k, BlockDev("drbd", tree, None, <<>>), c.r, c.log)

\* the tags of the dispatch table, and the tag of each tree
DEV_MAP == {"lv", "drbd", "file"}
TypeOf(tree) ==
  IF tree \in {"lv", "lvm"} THEN "lv" ELSE IF tree = "file" THEN "file" ELSE "drbd"

\* DEV_MAP[dev_type](unique_id, children), the children (c) built
Construct(c, tree, f) ==
  IF tree = "lv" THEN LV_New(c.k, "b", f)
  ELSE IF tree = "lvm" THEN LV_New(c.k, "m", f)
  ELSE IF tree = "file" THEN File_New(c.k, f)
  ELSE DRBD8_New(c.k, tree, EndpointOf(tree), c.kids, f)

\* the caller builds the children, then the device
New(k, tree, f) ==
  LET Children(c) ==
        IF IsErr(c.r) THEN NoTop(c, tree) ELSE Top(c, Construct(c, tree, f))
  IN  Children(NewChildren(k, tree, f))

\* a module-level function is entered with the children (c) built by its
\* caller; n is what it does
Entered(c, entry, dev_type, n) ==
  Res(n.k, n.o, n.r, c.log \o <<Call(entry, dev_type)>> \o n.log)

\* a tag check that comes after a look at the device
LooksBeforeRaising(k, dev_type, tree) ==
  Res(k, BlockDev(dev_type, tree, None, <<>>), ErrProgrammer,
      <<Cmd("lvdisplay", tree)>>)

\* "if dev_type not in DEV_MAP: raise errors.ProgrammerError"
InvalidType(k, dev_type, tree) ==
  Res(k, BlockDev(dev_type, tree, None, <<>>), ErrProgrammer, <<>>)

\* a method of the device, with its call and its return in the log
Invoked(log, method, a) ==
  Res(a.k, a.o, a.r,
      log \o <<Call(method, a.o.name)>> \o a.log \o <<Ret(method, a.o.name, a.r)>>)

\* Create(dev_type, unique_id, children, size)
Create(k, dev_type, tree, f) ==
  LET Class(c) ==
        IF tree = "lv" THEN LV_Create(c.k, "b", f)
        ELSE IF tree = "lvm" THEN LV_Create(c.k, "m", f)
        ELSE IF tree = "file" THEN File_Create(c.k, f)
        ELSE DRBD8_Create(c.k, tree, EndpointOf(tree), c.kids, f)
      Children(c) ==
        IF IsErr(c.r) THEN NoTop(c, tree)
        ELSE Entered(c, "Create", dev_type,
                     IF dev_type \notin DEV_MAP
                     THEN InvalidType(c.k, dev_type, tree) ELSE Class(c))
  IN  Children(NewChildren(k, tree, f))

\* a FindDevice that returns the object whether or not it attached
ReturnsUnattached(k, dev_type, tree, f) ==
  LET Built(n) == IF IsErr(n.r) THEN n ELSE Res(n.k, n.o, RDevice, n.log)
      Children(c) ==
        IF IsErr(c.r) THEN NoTop(c, tree)
        ELSE Entered(c, "FindDevice", dev_type,
                     IF dev_type \notin DEV_MAP
                     THEN InvalidType(c.k, dev_type, tree)
                     ELSE Built(Construct(c, tree, f)))
  IN  Children(NewChildren(k, tree, f))

\* FindDevice(dev_type, unique_id, children): the object, or None ("None")
\* when its Attach returns false
FindDevice(k, dev_type, tree, f) ==
  LET Found(a) ==
        IF IsErr(a.r) THEN a
        ELSE Res(a.k, a.o, IF a.r = RTrue THEN RDevice ELSE RNone, a.log)
      Built(n) ==
        IF IsErr(n.r) THEN n
        ELSE Found(Invoked(n.log, "Attach", Dev_Attach(n.k, n.o, f)))
      Children(c) ==
        IF IsErr(c.r) THEN NoTop(c, tree)
        ELSE Entered(c, "FindDevice", dev_type,
                     IF dev_type \notin DEV_MAP
                     THEN InvalidType(c.k, dev_type, tree)
                     ELSE Built(Construct(c, tree, f)))
  IN  Children(NewChildren(k, tree, f))

\* an AttachOrAssemble that returns the object right after Assemble
SkipsSecondAttach(k, dev_type, tree, f) ==
  LET Assembled(s) == IF IsErr(s.r) THEN s ELSE Res(s.k, s.o, RDevice, s.log)
      First(a) ==
        IF IsErr(a.r) THEN a
        ELSE IF a.r = RTrue THEN Res(a.k, a.o, RDevice, a.log)
        ELSE Assembled(Invoked(a.log, "Assemble", Dev_Assemble(a.k, a.o, f)))
      Built(n) ==
        IF IsErr(n.r) THEN n
        ELSE First(Invoked(n.log, "Attach", Dev_Attach(n.k, n.o, f)))
      Children(c) ==
        IF IsErr(c.r) THEN NoTop(c, tree)
        ELSE Entered(c, "AttachOrAssemble", dev_type,
                     IF dev_type \notin DEV_MAP
                     THEN InvalidType(c.k, dev_type, tree)
                     ELSE Built(Construct(c, tree, f)))
  IN  Children(NewChildren(k, tree, f))

\* AttachOrAssemble(dev_type, unique_id, children): Attach, and when that
\* returns false Assemble (its result is not looked at) and Attach again
AttachOrAssemble(k, dev_type, tree, f) ==
  LET Again(a) ==
        IF IsErr(a.r) THEN a
        ELSE Res(a.k, a.o, IF a.r = RTrue THEN RDevice ELSE ErrNoDevice, a.log)
      Assembled(s) ==
        IF IsErr(s.r) THEN s
        ELSE Again(Invoked(s.log, "Attach", Dev_Attach(s.k, s.o, f)))
      First(a) ==
        IF IsErr(a.r) THEN a
        ELSE IF a.r = RTrue THEN Res(a.k, a.o, RDevice, a.log)
        ELSE Assembled(Invoked(a.log, "Assemble", Dev_Assemble(a.k, a.o, f)))
      Built(n) ==
        IF IsErr(n.r) THEN n
        ELSE First(Invoked(n.log, "Attach", Dev_Attach(n.k, n.o, f)))
      Children(c) ==
        IF IsErr(c.r) THEN NoTop(c, tree)
        ELSE Entered(c, "AttachOrAssemble", dev_type,
                     IF dev_type \notin DEV_MAP
                     THEN InvalidType(c.k, dev_type, tree)
                     ELSE Built(Construct(c, tree, f)))
  IN  Children(NewChildren(k, tree, f))

(***************************************************************************)
(* Sync status.  A device is given here with what the tools report for it: *)
(* [type, obs, kids], obs the output of lvs for a logical volume and the   *)
(* /proc/drbd line of the minor for a mirror.                              *)
(***************************************************************************)
Status(percent, time, degraded, ldisk) ==
  [percent |-> percent, time |-> time, degraded |-> degraded, ldisk |-> ldisk]

\* lvs --noheadings -olv_attr: the command failed, or the six attribute
\* characters, of which the first is 'v' for a virtual volume
LvAttrs == {"failed", "-wi-ao", "vwi-ao", "-wi-a"}
LV_GetSyncStatus(out) ==
  IF out = "failed" \/ Len(out) # 6 THEN Status(None, None, TRUE, TRUE)
  ELSE Status(None, None, SubSeq(out, 1, 1) = "v", SubSeq(out, 1, 1) = "v")

\* the line of an attached minor: "sync'ed: P% ... finish: h:m:s" when a
\* resync runs, the connection state and the state of the local disk
ProcLines ==
  [sync : {None, Some([percent |-> 10, h |-> 1, m |-> 2, s |-> 3]),
                 Some([percent |-> 90, h |-> 0, m |-> 0, s |-> 40])},
   cs : {"Connected", "WFConnection", "SyncTarget"},
   ds : {"UpToDate", "Inconsistent"}]
\* a status whose is_degraded looks at the connection only
DegradedByNetOnly(line) ==
  Status({x.percent : x \in line.sync},
         {x.h * 3600 + x.m * 60 + x.s : x \in line.sync},
         line.cs # "Connected",
         line.ds # "UpToDate")

DRBD8_GetSyncStatus(line) ==
  Status({x.percent : x \in line.sync},
         {x.h * 3600 + x.m * 60 + x.s : x \in line.sync},
         line.cs # "Connected" \/ line.ds # "UpToDate",
         line.ds # "UpToDate")

GetSyncStatus(d) ==
  CASE d.type = "lv" -> LV_GetSyncStatus(d.obs)
    [] d.type = "drbd" -> DRBD8_GetSyncStatus(d.obs)
    [] d.type = "file" -> Status(None, None, FALSE, FALSE)

\* CombinedSyncStatus: the device's own status, then one pass over
\* self._children taking each child's GetSyncStatus
RECURSIVE FoldChildren(_, _, _)
FoldChildren(acc, kids, i) ==
  IF i > Len(kids) THEN acc
  ELSE LET Folded(c) ==
             Status(IF acc.percent = None THEN c.percent
                    ELSE IF c.percent # None
                    THEN Some(IF The(acc.percent) < The(c.percent)
                              THEN The(acc.percent) ELSE The(c.percent))
                    ELSE acc.percent,
                    IF acc.time = None THEN c.time
                    ELSE IF c.time # None
                    THEN Some(IF The(acc.time) > The(c.time)
                              THEN The(acc.time) ELSE The(c.time))
                    ELSE acc.time,
                    acc.degraded \/ c.degraded,
                    acc.ldisk \/ c.ldisk)
       IN  FoldChildren(Folded(GetSyncStatus(kids[i])), kids, i + 1)

CombinedSyncStatus(d) == FoldChildren(GetSyncStatus(d), d.kids, 1)

\* the devices whose sync status is asked for: a logical volume, a file, a
\* mirror over two logical volumes, a mirror over a mirror over a volume
SyncDevices ==
  LET Lvs == [type : {"lv"}, obs : LvAttrs, kids : {<<>>}]
      Over(kids) == [type : {"drbd"}, obs : ProcLines, kids : kids]
  IN  Lvs \cup {[type |-> "file", obs |-> "", kids |-> <<>>]}
          \cup Over({<<x, y>> : x \in Lvs, y \in Lvs})
          \cup Over({<<x>> : x \in Over({<<y>> : y \in Lvs})})

\* SetSyncSpeed of a device: BlockDev.SetSyncSpeed over the children
\* ("result = result and child.SetSyncSpeed(speed)": a child is called while
\* result is true), then for a mirror the minor test and drbdsetup syncer,
\* which fails for the devices in fails: [r, log]
RECURSIVE SetSyncSpeed(_, _)
SetSyncSpeed(o, fails) ==
  LET RECURSIVE Forward(_, _, _)
      Forward(i, result, log) ==
        IF i > Len(o.kids) THEN [r |-> result, log |-> log]
        ELSE IF ~result THEN Forward(i + 1, FALSE, log)
        ELSE LET Called(c) ==
                   Forward(i + 1, c.r,
                           log \o <<Call("SetSyncSpeed", o.kids[i].name)>> \o c.log
                               \o <<Ret("SetSyncSpeed", o.kids[i].name, BoolRes(c.r))>>)
             IN  Called(SetSyncSpeed(o.kids[i], fails))
      Own(children) ==
        IF o.type # "drbd" THEN children
        ELSE IF o.minor = None THEN [r |-> FALSE, log |-> children.log]
        ELSE [r |-> o.name \notin fails /\ children.r,
              log |-> children.log \o <<Cmd("syncer", DevPath(The(o.minor)))>>]
  IN  Own(Forward(1, TRUE, <<>>))

\* the contents of /proc/drbd: each of these minors missing, Unconfigured or
\* in use, in ascending order
ProcContents ==
  LET listable == {0, 1, 2, 3, 254, 255}
      Lines(g, listed) ==
        [i \in DOMAIN listed |-> [minor |-> listed[i], cs |-> g[listed[i]]]]
      Content(g) == Lines(g, Ascending({n \in listable : g[n] # "missing"}))
  IN  {Content(g) : g \in [listable -> {"missing", "Unconfigured", "Connected"}]}

(***************************************************************************)
(* State machine: one caller holding one device object at a time           *)
(***************************************************************************)
\* whether Attach on this object succeeds, all tools working
Attachable(k, o) == Dev_Attach(k, o, {}).r = RTrue

\* last: the operation just run, what it returned or raised, what it issued,
\* the failing tools of an Attach or a Remove, and the object and kernel it
\* started from;
\* was: for an Assemble, and for the Shutdown that follows it, whether the
\* object was attachable before the Assemble and what the Assemble returned;
\* made: the object held came from Create and no Remove before this
\* operation acted on it
NoOp == [op |-> "init", r |-> RNone, log |-> <<>>, f |-> {}, pre |-> None,
         kpre |-> None, was |-> None, made |-> FALSE, arg |-> <<>>]
Did(op, res, f) ==
  [op |-> op, r |-> res.r, log |-> res.log, arg |-> <<>>,
   f |-> IF op \in {"Attach", "Remove"} THEN f ELSE {}, pre |-> dev,
   kpre |-> Some(kern),
   was |-> IF op = "Assemble"
           THEN Some([attached |-> Attachable(kern, The(dev)), r |-> res.r])
           ELSE IF op = "Shutdown" /\ last.op = "Assemble" THEN last.was
           ELSE None,
   made |-> IF op = "Create" THEN ~IsErr(res.r)
            ELSE IF op \in {"Attach", "Assemble", "Open", "Shutdown", "Remove"}
            THEN last.made /\ last.op # "Remove"
            ELSE FALSE]

\* the tools an operation on these trees can invoke
Tools(ts) ==
  IF ts \subseteq Leaves
  THEN {"lvdisplay", "lvchange", "lvcreate", "lvremove", "fopen", "unlink"}
  ELSE IF ts = {"D1", "D3"} THEN {"net", "poll", "disconnect", "down", "primary"}
  ELSE IF ts = {"T"}
  THEN FailKinds \ {"lvcreate", "lvremove", "fopen", "unlink", "lvdisplay"}
  ELSE FailKinds \ {"lvcreate", "lvremove", "fopen", "unlink", "lvdisplay", "primary"}
Fails(kinds) == FailSets(kinds \cap Tools(trees))

AttachKinds == {"lvdisplay", "net", "poll", "disconnect"}
ShutdownKinds == AttachKinds \cup {"down"}
RemoveKinds == ShutdownKinds \cup {"lvremove", "unlink"}
OpenKinds == AttachKinds \cup {"primary"}
OrAssembleKinds == {"lvdisplay", "lvchange", "disk", "net", "poll"}
AssembleKinds == AttachKinds \cup {"lvchange", "dstate", "disk", "down", "primary"}
CreateKinds == AttachKinds \cup {"lvchange", "lvcreate", "fopen", "blockdev",
                                 "create-md", "dstate"}

\* what the caller finds on the node: nothing of DRBD configured yet, the
\* volumes and the file there or not
Volumes(ts) ==
  IF ts \subseteq Leaves
  THEN {[b |-> s, m |-> "active"] : s \in {"absent", "inactive", "active"}}
  ELSE IF ts = {"D1", "D3"} THEN {[b |-> "active", m |-> "active"]}
  ELSE {[b |-> "active", m |-> "active"], [b |-> "inactive", m |-> "inactive"],
        [b |-> "active", m |-> "absent"]}

Init ==
  /\ trees \in Scopes
  /\ kern \in [lv : Volumes(trees),
               file : IF trees \subseteq Leaves THEN BOOLEAN ELSE {FALSE},
               md : IF trees \subseteq Leaves \/ trees = {"D1", "D3"}
                    THEN {{}} ELSE SUBSET {LvPath("m")},
               minors : {[n \in Minors |-> NoMinor]}]
  /\ dev = None
  /\ last = NoOp
  /\ probe = None

\* the tags a caller passes for a tree: its own, or one outside the table
DevTypes(tree) == {TypeOf(tree), "md_raid1"}

\* the caller constructs the objects of a tree: it holds the object unless
\* the constructor raised or FindDevice returned None
Constructed(op, res, f) ==
  /\ probe' = probe
  /\ kern' = res.k
  /\ dev' = IF IsErr(res.r) \/ (op = "FindDevice" /\ res.r = RNone)
            THEN None ELSE Some(res.o)
  /\ last' = Did(op, res, f)
  /\ trees' = trees

DoNew ==
  \E tree \in trees, f \in Fails(AttachKinds) :
    Constructed("New", New(kern, tree, f), f)

\* the tools that fail during a call: none matter to a call with a tag
\* outside the table
FailsFor(dev_type, kinds) == IF dev_type \in DEV_MAP THEN Fails(kinds) ELSE {{}}

DoCreate ==
  \E tree \in trees : \E dev_type \in DevTypes(tree) :
    \E f \in FailsFor(dev_type, CreateKinds) :
      Constructed("Create", Create(kern, dev_type, tree, f), f)

DoFindDevice ==
  \E tree \in trees : \E dev_type \in DevTypes(tree) :
    \E f \in FailsFor(dev_type, AttachKinds) :
      Constructed("FindDevice", FindDevice(kern, dev_type, tree, f), f)

DoAttachOrAssemble ==
  \E tree \in trees : \E dev_type \in DevTypes(tree) :
    \E f \in FailsFor(dev_type, OrAssembleKinds) :
      Constructed("AttachOrAssemble", AttachOrAssemble(kern, dev_type, tree, f), f)

\* a method of the object held
Method(op, res, f) ==
  /\ probe' = probe
  /\ kern' = res.k
  /\ dev' = Some(res.o)
  /\ last' = Did(op, res, f)
  /\ trees' = trees

DoAttach ==
  /\ dev # None
  /\ \E f \in Fails(AttachKinds) : Method("Attach", Dev_Attach(kern, The(dev), f), f)

DoAssemble ==
  /\ dev # None
  /\ \E f \in Fails(AssembleKinds) :
       Method("Assemble", Dev_Assemble(kern, The(dev), f), f)

DoOpen ==
  /\ dev # None
  /\ \E f \in Fails(OpenKinds) : Method("Open", Dev_Open(kern, The(dev), f), f)

DoShutdown ==
  /\ dev # None
  /\ \E f \in Fails(ShutdownKinds) :
       Method("Shutdown", Dev_Shutdown(kern, The(dev), f), f)

DoRemove ==
  /\ dev # None
  /\ \E f \in Fails(RemoveKinds) : Method("Remove", Dev_Remove(kern, The(dev), f), f)

\* the kernel now reports the addresses of an earlier drbdsetup net
KernelSettle ==
  \E n \in Minors :
    /\ kern.minors[n].net # None /\ ~kern.minors[n].vis
    /\ kern' = SetMinor(kern, n, [kern.minors[n] EXCEPT !.vis = TRUE])
    /\ dev' = dev
    /\ trees' = trees
    /\ probe' = probe
    /\ last' = [NoOp EXCEPT !.op = "settle", !.made = last.made /\ last.op # "Remove"]

Next ==
  \/ DoNew
  \/ DoCreate
  \/ DoFindDevice
  \/ DoAttachOrAssemble
  \/ DoAttach
  \/ DoAssemble
  \/ DoOpen
  \/ DoShutdown
  \/ DoRemove
  \/ KernelSettle

Spec == Init /\ [][Next]_vars

(***************************************************************************)
(* The caller that changes the children of a mirror it holds               *)
(***************************************************************************)
\* a method taking a list
MethodOn(op, arg, res, f) ==
  /\ probe' = probe
  /\ kern' = res.k
  /\ dev' = Some(res.o)
  /\ last' = [Did(op, res, f) EXCEPT !.arg = arg]
  /\ trees' = trees

\* the lists passed are objects the caller constructed
DoAddChildren ==
  /\ dev # None /\ The(dev).type = "drbd"
  /\ \E devices \in
         LET Lists(b, m) ==
               {<<b, m>>, <<m, b>>, <<b>>}
                 \cup IF trees = {"T"}
                      THEN {<<DRBD8_New(kern, "X", Some(E1), <<>>, {}).o, m>>}
                      ELSE {}
         IN  Lists(LV_New(kern, "b", {}).o, LV_New(kern, "m", {}).o) :
       \E f \in Fails({"blockdev", "create-md", "dstate", "disk", "primary"}) :
         MethodOn("AddChildren", devices,
                  DRBD8_AddChildren(kern, The(dev), devices, f), f)

\* the lists passed are paths
DoRemoveChildren ==
  /\ dev # None /\ The(dev).type = "drbd"
  /\ \E devices \in
         {<<LvPath("b"), LvPath("m")>>, <<LvPath("m"), LvPath("b")>>, <<LvPath("b")>>}
           \cup IF trees = {"T"} THEN {<<DevPath(0), LvPath("m")>>} ELSE {} :
       \E f \in Fails({"detach"}) :
       MethodOn("RemoveChildren", devices,
                DRBD8_RemoveChildren(kern, The(dev), devices, f), f)

ChildNext ==
  \/ DoNew
  \/ DoAssemble
  \/ DoShutdown
  \/ KernelSettle
  \/ DoAddChildren
  \/ DoRemoveChildren

ChildSpec == Init /\ [][ChildNext]_vars

(***************************************************************************)
(* The whole life of a mirror: every call of the two callers above, on a   *)
(* node whose volumes are active, for the mirror over two volumes and the  *)
(* diskless mirror with the same endpoints                                 *)
(***************************************************************************)
LifeInit ==
  /\ trees = {"M1", "D1"}
  /\ kern \in [lv : {[b |-> "active", m |-> "active"]},
               file : {FALSE},
               md : SUBSET {LvPath("m")},
               minors : {[n \in Minors |-> NoMinor]}]
  /\ dev = None
  /\ last = NoOp
  /\ probe = None

LifeNext ==
  \/ DoNew
  \/ DoCreate
  \/ DoFindDevice
  \/ DoAttachOrAssemble
  \/ DoAttach
  \/ DoAssemble
  \/ DoOpen
  \/ DoShutdown
  \/ DoRemove
  \/ KernelSettle
  \/ DoAddChildren
  \/ DoRemoveChildren

LifeSpec == LifeInit /\ [][LifeNext]_vars

(***************************************************************************)
(* Two callers on one node, each in DRBD8.Assemble, their steps            *)
(* interleaved.  probe holds, for each caller, the object, where the call  *)
(* is, the minor it was given and what it returned.                        *)
(***************************************************************************)
\* an allocator that marks the minor it hands out as taken
ReservesMinor(k, pr, f) ==
  LET Found(u) ==
        IF u.err THEN [k |-> k, pr |-> [pr EXCEPT !.pc = "done", !.r = Some(ErrNoMinor)]]
        ELSE [k |-> SetMinor(k, u.n, [k.minors[u.n] EXCEPT !.listed = TRUE,
                                                          !.primary = TRUE]),
              pr |-> [pr EXCEPT !.pc = "local", !.minor = Some(u.n)]]
  IN  IF pr.pc = "find" THEN Found(FindUnusedMinor(k))
      ELSE IF pr.pc = "start" THEN [k |-> k, pr |-> [pr EXCEPT !.pc = "find"]]
      ELSE [k |-> k, pr |-> [pr EXCEPT !.pc = "done", !.r = Some(RFalse)]]

\* DRBD8.Assemble from where the call is (pr.pc) to the next place another
\* caller can run: [k, pr]
AssembleStep(k, pr, f) ==
  LET o == pr.o
      Done(kk, oo, r) == [k |-> kk, pr |-> [pr EXCEPT !.pc = "done", !.o = oo, !.r = Some(r)]]
      \* "self.Attach()" ... "result = super(DRBD8, self).Assemble()"
      Children(b) ==
        IF b.r # RTrue THEN Done(b.k, b.o, b.r)
        ELSE [k |-> b.k, pr |-> [pr EXCEPT !.pc = "find", !.o = b.o]]
      Attached(a) ==
        IF IsErr(a.r) THEN Done(a.k, a.o, a.r)
        ELSE IF a.o.minor # None THEN Done(a.k, a.o, RTrue)
        ELSE Children(BlockDev_Assemble(a.k, a.o, f))
      \* "minor = self._FindUnusedMinor()"
      Found(u) ==
        IF u.err THEN Done(k, o, ErrNoMinor)
        ELSE [k |-> k, pr |-> [pr EXCEPT !.pc = "local", !.minor = Some(u.n)]]
      \* "result = self._AssembleLocal(...)"
      Local(l) ==
        IF IsErr(l.r) THEN Done(l.k, o, l.r)
        ELSE IF l.r # RTrue THEN Done(l.k, o, RFalse)
        ELSE [k |-> l.k, pr |-> [pr EXCEPT !.pc = "net"]]
      \* "result = self._AssembleNet(...)" ... "self._SetFromMinor(minor)"
      TornDown(t) == Done(t.k, o, RFalse)
      Net(n) ==
        IF n.ok THEN Done(n.k, SetFromMinor(o, pr.minor), RTrue)
        ELSE IF o.kids # <<>> THEN TornDown(ShutdownAll(n.k, The(pr.minor), f))
        ELSE Done(n.k, o, RFalse)
  IN  CASE pr.pc = "start" -> Attached(DRBD8_Attach(k, o, f))
        [] pr.pc = "find" -> Found(FindUnusedMinor(k))
        [] pr.pc = "local" ->
             IF o.kids # <<>>
             THEN Local(AssembleLocal(k, The(pr.minor), PathOf(o.kids[1]),
                                      PathOf(o.kids[2]), f))
             ELSE [k |-> k, pr |-> [pr EXCEPT !.pc = "net"]]
        [] pr.pc = "net" ->
             IF o.ep # None THEN Net(AssembleNet(k, The(pr.minor), o.ep, f))
             ELSE Done(k, SetFromMinor(o, pr.minor), RTrue)

\* two callers, a diskless mirror or a mirror over two volumes each, towards
\* different peers; minor 0 may be in use by a third device
RaceInit ==
  /\ trees = {"M1", "D3"}
  /\ \E used \in BOOLEAN, md \in SUBSET {LvPath("m")} :
       kern = [lv |-> [b |-> "active", m |-> "active"], file |-> FALSE, md |-> md,
               minors |-> [n \in Minors |->
                             IF used /\ n = 0
                             THEN [NoMinor EXCEPT !.listed = TRUE, !.net = Some(E2),
                                                  !.vis = TRUE]
                             ELSE NoMinor]]
  /\ dev = None
  /\ last = NoOp
  /\ \E first \in {"M1", "D1", "D0"} :
       LET Caller(n) == [o |-> n.o, pc |-> "start", minor |-> None, r |-> None]
       IN  probe = Some([fn |-> "Assemble", overlapped |-> FALSE,
                         pr |-> <<Caller(New(kern, first, {})),
                                  Caller(New(kern, "D3", {}))>>])

\* one caller takes its next step; overlapped records that a caller took a
\* step while the call of the other was under way
Stepped(p, pcs, f) ==
  /\ The(probe).pr[p].pc \in pcs
  /\ LET Taken(s) ==
           /\ kern' = s.k
           /\ probe' = Some([The(probe) EXCEPT
                               !.pr[p] = s.pr,
                               !.overlapped =
                                 @ \/ The(probe).pr[3 - p].pc \notin {"start", "done"}])
     IN  Taken(AssembleStep(kern, The(probe).pr[p], f))
  /\ UNCHANGED <<dev, last, trees>>

\* Attach and the Assemble of the children
DoEnter ==
  /\ probe # None /\ The(probe).fn = "Assemble"
  /\ \E p \in 1 .. 2, f \in FailSets({"lvchange", "net", "poll"}) :
       Stepped(p, {"start"}, f)

DoFind ==
  /\ probe # None /\ The(probe).fn = "Assemble"
  /\ \E p \in 1 .. 2 : Stepped(p, {"find"}, {})

\* _AssembleLocal, then _AssembleNet and what follows it
DoConfigure ==
  /\ probe # None /\ The(probe).fn = "Assemble"
  /\ \E p \in 1 .. 2, f \in FailSets({"dstate", "disk", "net", "poll", "down"}) :
       Stepped(p, {"local", "net"}, f)

RaceNext == DoEnter \/ DoFind \/ DoConfigure

RaceSpec == RaceInit /\ [][RaceNext]_vars

(***************************************************************************)
(* Calls looked at on their own: the functions that only read (they are    *)
(* given what the tools report and leave the node and the object as they   *)
(* are), the poll of _AssembleNet, SetSyncSpeed and Rename.  probe holds   *)
(* the input and, once the call has returned, Some(output).                *)
(***************************************************************************)
Asked(fn, in) == Some([fn |-> fn, in |-> in, out |-> None])

\* _AssembleNet step by step.  "timeout = time.time() + 10"
NetTimeout == 10

\* a poll that takes the first answer of drbdsetup show for ours
ReturnsOnFirstRead(p, info, d) ==
  IF p.clock >= NetTimeout THEN [p EXCEPT !.out = Some(FALSE), !.pc = "done"]
  ELSE [p EXCEPT !.polls = @ + 1, !.read = Some(info),
                 !.out = Some(TRUE), !.pc = "done"]

\* one turn of "while time.time() < timeout": info is what drbdsetup show
\* reports now, d the seconds that pass until the next turn (time.sleep(1))
PollOnce(p, info, d) ==
  IF p.clock >= NetTimeout THEN [p EXCEPT !.out = Some(FALSE), !.pc = "done"]
  ELSE IF \/ info.local_addr = None \/ info.remote_addr = None
          \/ info.local_addr # Some(p.in.ep.l)
          \/ info.remote_addr # Some(p.in.ep.r)
  THEN [p EXCEPT !.polls = @ + 1, !.read = Some(info), !.clock = @ + d]
  ELSE [p EXCEPT !.polls = @ + 1, !.read = Some(info),
                 !.out = Some(TRUE), !.pc = "done"]

ReadInit ==
  /\ trees = {"T"}
  /\ kern = [lv |-> [b |-> "active", m |-> "active"], file |-> FALSE, md |-> {},
             minors |-> [n \in Minors |-> NoMinor]]
  /\ dev = None
  /\ last = NoOp
  /\ \/ \E d \in SyncDevices : probe = Asked("CombinedSyncStatus", d)
     \/ \E data \in ProcContents : probe = Asked("_FindUnusedMinor", data)
     \* the endpoints asked for, whether drbdsetup net works, the addresses
     \* the kernel comes to report (none, ours, another peer's) and from when
     \/ \E in \in [ep : {E1}, cmd_ok : BOOLEAN, shows : {None, Some(E1), Some(E2)},
                   from : 0 .. NetTimeout + 1] :
          probe = Some([fn |-> "_AssembleNet", in |-> in, out |-> None,
                        pc |-> "net", clock |-> 0, polls |-> 0, read |-> None])
     \* SetSyncSpeed: a volume, a mirror over two volumes, over a mirror and
     \* a volume, or over two mirrors, each mirror attached or not, and the
     \* mirrors whose drbdsetup syncer fails
     \/ \E held \in [{"T", "X", "Y"} -> BOOLEAN], fails \in SUBSET {"T", "X", "Y"},
           shape \in {"lv", "lvs", "stacked", "mirrors"} :
          LET Lv(name) == [type |-> "lv", name |-> name, minor |-> Some(0), kids |-> <<>>]
              Mirror(name, n, kids) ==
                [type |-> "drbd", name |-> name, kids |-> kids,
                 minor |-> IF held[name] THEN Some(n) ELSE None]
          IN  probe = Asked("SetSyncSpeed",
                            [fails |-> fails,
                             o |-> CASE shape = "lv" -> Lv("b")
                                     [] shape = "lvs" -> Mirror("T", 0, <<Lv("b"), Lv("m")>>)
                                     [] shape = "stacked" ->
                                          Mirror("T", 1, <<Mirror("X", 0, <<>>), Lv("m")>>)
                                     [] shape = "mirrors" ->
                                          Mirror("T", 2, <<Mirror("X", 0, <<>>),
                                                           Mirror("Y", 1, <<>>)>>)])
     \* Rename: the volumes of the group, the object (a volume by its name,
     \* attached when the volume is active, or a mirror), the new id and
     \* whether lvrename fails
     \/ \E lv \in [{"b", "m", "n"} -> {"absent", "active"}], name \in {"b", "D1"},
           new_id \in {<<"vg", "b">>, <<"vg", "m">>, <<"vg", "n">>, <<"vg2", "n">>,
                       <<"vg">>},
           f \in SUBSET {"lvrename"} :
          LET Object(o) == [type |-> o.type, name |-> name, unique_id |-> <<"vg", name>>,
                            dev_path |-> o.dev_path, major |-> o.major,
                            minor |-> o.minor, ep |-> o.ep, kids |-> o.kids]
              k == [lv |-> lv]
          IN  probe = Asked("Rename",
                            [k |-> k, new_id |-> new_id, f |-> f,
                             o |-> Object(IF name = "D1"
                                          THEN BlockDev("drbd", name, Some(E1), <<>>)
                                          ELSE LV_New(k, name, {}).o)])

Answered(fn, out) ==
  /\ probe # None /\ The(probe).fn = fn /\ The(probe).out = None
  /\ probe' = Some([The(probe) EXCEPT !.out = Some(out)])
  /\ UNCHANGED <<kern, dev, last, trees>>

DoCombinedSyncStatus ==
  /\ probe # None /\ The(probe).fn = "CombinedSyncStatus"
  /\ Answered("CombinedSyncStatus", CombinedSyncStatus(The(probe).in))

DoFindUnusedMinor ==
  /\ probe # None /\ The(probe).fn = "_FindUnusedMinor"
  /\ Answered("_FindUnusedMinor", ScanProcData(The(probe).in, 1, None))

\* utils.RunCmd of drbdsetup net: a failure ends _AssembleNet, else the
\* clock starts
DoNetCommand ==
  /\ probe # None /\ The(probe).fn = "_AssembleNet" /\ The(probe).pc = "net"
  /\ probe' = Some(IF The(probe).in.cmd_ok THEN [The(probe) EXCEPT !.pc = "poll"]
                   ELSE [The(probe) EXCEPT !.pc = "done", !.out = Some(FALSE)])
  /\ UNCHANGED <<kern, dev, last, trees>>

DoPoll ==
  /\ probe # None /\ The(probe).fn = "_AssembleNet" /\ The(probe).pc = "poll"
  /\ \E d \in {1, 2} :
       LET Show(p) ==
             IF p.in.shows # None /\ p.clock >= p.in.from
             THEN [NoInfo EXCEPT !.local_addr = Some(The(p.in.shows).l),
                                 !.remote_addr = Some(The(p.in.shows).r)]
             ELSE NoInfo
       IN  probe' = Some(PollOnce(The(probe), Show(The(probe)), d))
  /\ UNCHANGED <<kern, dev, last, trees>>

DoSetSyncSpeed ==
  /\ probe # None /\ The(probe).fn = "SetSyncSpeed"
  /\ Answered("SetSyncSpeed", SetSyncSpeed(The(probe).in.o, The(probe).in.fails))

\* Rename of the class of the object
DoRename ==
  /\ probe # None /\ The(probe).fn = "Rename"
  /\ LET Dev_Rename(in) ==
           IF in.o.type = "lv" THEN LV_Rename(in.k, in.o, in.new_id, in.f)
           ELSE DRBD8_Rename(in.k, in.o, in.new_id, in.f)
     IN  Answered("Rename", Dev_Rename(The(probe).in))

ReadNext ==
  \/ DoCombinedSyncStatus
  \/ DoFindUnusedMinor
  \/ DoNetCommand
  \/ DoPoll
  \/ DoSetSyncSpeed
  \/ DoRename

ReadSpec == ReadInit /\ [][ReadNext]_vars

\* a call that was started runs on
LiveReadSpec == ReadSpec /\ WF_vars(ReadNext)

(***************************************************************************)
(* Properties                                                              *)
(***************************************************************************)
Log == last.log
Obj == The(dev)
Pre == The(last.pre)
KPre == The(last.kpre)
Ran(op) == last.op = op /\ dev # None
IsCmd(i, tool) == Log[i].k = "cmd" /\ Log[i].a = tool
Issued(tool) == \E i \in DOMAIN Log : IsCmd(i, tool)
Returned(i, method, name, r) == Log[i] = Ret(method, name, r)
Called(i, method, name) == Log[i] = Call(method, name)
ChildNames(o) == {o.kids[i].name : i \in DOMAIN o.kids}

\* C1: whenever Assemble returns success, the device's dev_path, major and
\* minor are all present, for every driver
C1_AssembleKnowsIdentity ==
  (Ran("Assemble") /\ last.r = RTrue) =>
    (Obj.dev_path # None /\ Obj.major # None /\ Obj.minor # None)

\* C2 as stated: after Shutdown returns success the device's own dev_path and
\* minor are absent, for every driver
C2_ShutdownClearsEveryDriver ==
  (Ran("Shutdown") /\ last.r = RTrue) =>
    (Obj.dev_path = None /\ Obj.minor = None)

\* C2 as amended: after a successful Shutdown a mirror's dev_path and minor
\* are absent; Shutdown of a logical volume or a file device is a no-op that
\* leaves dev_path and minor as they were
C2_ShutdownClearsMirror ==
  (Ran("Shutdown") /\ last.r = RTrue) =>
    IF Obj.type = "drbd"
    THEN Obj.dev_path = None /\ Obj.minor = None
    ELSE Obj = Pre /\ kern = KPre /\ Obj.dev_path # None

\* a mirror that was attached has been shut down by drbdsetup down
C2_Witness ==
  /\ Ran("Shutdown") /\ last.r = RTrue /\ Obj.type = "drbd"
  /\ Pre.minor # None /\ Issued("down")

\* C3: on every assembly path, when Assemble fails after a child was
\* assembled, Shutdown is invoked on every child that had been assembled
\* before the failure is returned or the error propagates
C3_FailedAssembleShutsChildrenDown ==
  (Ran("Assemble") /\ last.r # RTrue) =>
    \A c \in ChildNames(Obj) : \A i \in DOMAIN Log :
      Returned(i, "Assemble", c, RTrue) =>
        \E j \in DOMAIN Log : j > i /\ Called(j, "Shutdown", c)

\* C4: in the default Assemble, when the Assemble of child k returns false,
\* Shutdown has been invoked on every child before k by the time Assemble
\* returns, and Assemble returns false
C4_ChildAssembleFalse ==
  Ran("Assemble") =>
    \A n \in DOMAIN Obj.kids : \A i \in DOMAIN Log :
      Returned(i, "Assemble", Obj.kids[n].name, RFalse) =>
        /\ last.r = RFalse
        /\ \A m \in 1 .. (n - 1) :
             \E j \in DOMAIN Log : j > i /\ Called(j, "Shutdown", Obj.kids[m].name)

\* the second child failed to assemble after the first one was assembled
C4_Witness ==
  /\ Ran("Assemble") /\ Len(Obj.kids) = 2
  /\ \E i, j \in DOMAIN Log :
       /\ i < j
       /\ Returned(i, "Assemble", Obj.kids[1].name, RTrue)
       /\ Returned(j, "Assemble", Obj.kids[2].name, RFalse)

\* C5: in the default Assemble, when Open of a child raises a block-device
\* error, Shutdown is invoked on all children and then the same error is
\* raised to the caller
C5_ChildOpenRaises ==
  Ran("Assemble") =>
    \A i \in DOMAIN Log :
      (Log[i].k = "ret" /\ Log[i].a = "Open" /\ Log[i].r \in BlockDeviceErrors) =>
        /\ last.r = Log[i].r
        /\ \A c \in ChildNames(Obj) :
             \E j \in DOMAIN Log : j > i /\ Called(j, "Shutdown", c)

\* Open of the first child raised
C5_Witness ==
  /\ Ran("Assemble") /\ Len(Obj.kids) = 2
  /\ \E i \in DOMAIN Log : Returned(i, "Open", Obj.kids[1].name, ErrPrimary)

\* C6: Attach is idempotent: two successive Attach calls with no external
\* change in between (the same kernel as the first call left it, the same
\* tools failing) return the same result and leave the same minor and dev_path
C6_AttachIdempotent ==
  Ran("Attach") =>
    LET Same(again) == /\ again.r = last.r
                       /\ again.o.minor = Obj.minor
                       /\ again.o.dev_path = Obj.dev_path
    IN  Same(Dev_Attach(kern, Obj, last.f))

\* an Attach of a mirror that reconfigured the network and bound the minor
C6_Witness ==
  /\ Ran("Attach") /\ Obj.type = "drbd"
  /\ Issued("net") /\ last.r = RTrue /\ Obj.minor # None

\* the commands of the last operation against one minor
CmdsOn(tool, n) == {i \in DOMAIN Log : IsCmd(i, tool) /\ Log[i].t = DevPath(n)}
\* as Attach found minor n: local storage is ours, the network is configured
\* and is not ours
WrongPeer(n) ==
  LET info == GetDevInfo(KPre, n)
  IN  /\ Used(KPre, n)
      /\ MatchesLocal(Pre, info)
      /\ info.local_addr # None
      /\ ~MatchesNet(Pre, info)
\* disconnect before any net command on n, then net; bound if net-match holds
\* afterwards; a failed disconnect raises and no net command is issued
Reconciled(n) ==
  /\ CmdsOn("disconnect", n) # {}
  /\ \A i \in CmdsOn("net", n) : \E j \in CmdsOn("disconnect", n) : j < i
  /\ IF "disconnect" \in last.f
     THEN last.r = ErrWrongPeer /\ ~Issued("net")
     ELSE /\ CmdsOn("net", n) # {}
          /\ MatchesNet(Obj, GetDevInfo(kern, n)) <=>
               (last.r = RTrue /\ Obj.minor = Some(n))

\* C7 as stated: every in-use minor whose local storage matches ours and whose
\* network is configured but does not match is disconnected, then
\* net-attached, and bound if net-match holds; a failing disconnect raises
C7_WrongPeerAsStated ==
  (Ran("Attach") /\ Obj.type = "drbd") =>
    \A n \in Minors : WrongPeer(n) => Reconciled(n)

\* C7 as amended: the same for a minor that has a local disk and that the
\* scan reaches, no lower minor having been bound; a diskless minor with
\* another network configuration gets no command and is left as it was
C7_WrongPeerWithLocalDisk ==
  (Ran("Attach") /\ Obj.type = "drbd") =>
    \A n \in Minors :
      /\ ( /\ WrongPeer(n)
           /\ GetDevInfo(KPre, n).local_dev # None
           /\ ~(last.r = RTrue /\ \E b \in Obj.minor : b < n) ) => Reconciled(n)
      /\ (WrongPeer(n) /\ GetDevInfo(KPre, n).local_dev = None) =>
           /\ CmdsOn("disconnect", n) = {} /\ CmdsOn("net", n) = {}
           /\ kern.minors[n] = KPre.minors[n]

\* a wrong peer was disconnected and the minor bound to our peer
C7_Witness ==
  /\ Ran("Attach") /\ Obj.type = "drbd"
  /\ \E n \in Minors :
       /\ WrongPeer(n) /\ GetDevInfo(KPre, n).local_dev # None
       /\ CmdsOn("disconnect", n) # {} /\ CmdsOn("net", n) # {}
       /\ last.r = RTrue /\ Obj.minor = Some(n)

\* C8: whenever some in-use minor satisfies both matches-local and
\* matches-net, DRBD8.Attach returns true without issuing any net,
\* disconnect, disk, detach or down command
C8_HappyPathIssuesNothing ==
  ( /\ Ran("Attach") /\ Obj.type = "drbd"
    /\ \E n \in Minors :
         /\ Used(KPre, n)
         /\ MatchesLocal(Pre, GetDevInfo(KPre, n))
         /\ MatchesNet(Pre, GetDevInfo(KPre, n)) )
  => (last.r = RTrue /\ \A i \in DOMAIN Log : Log[i].k # "cmd")

\* C9: whenever DRBD8.Assemble fails on a device that was not attached
\* beforehand, the mirror's minor and dev_path are absent afterwards; when it
\* records them, it returned success and the minor carries our network
C9_FailedAssembleRecordsNothing ==
  (Ran("Assemble") /\ Obj.type = "drbd" /\ Pre.minor = None) =>
    /\ last.r # RTrue => (Obj.minor = None /\ Obj.dev_path = None)
    /\ Obj.minor # None =>
         /\ last.r = RTrue
         /\ Obj.dev_path = Some(DevPath(The(Obj.minor)))
         /\ MatchesNet(Obj, GetDevInfo(kern, The(Obj.minor)))

\* the local disk was attached, the network attach failed
C9_Witness ==
  /\ Ran("Assemble") /\ Obj.type = "drbd" /\ Pre.minor = None
  /\ last.r = RFalse /\ Issued("disk") /\ Issued("net")
  /\ Obj.minor = None

\* C10 as stated: after Create returns an instance, Attach on that instance
\* returns true, for every driver
C10_CreateYieldsAttached ==
  (Ran("Create") /\ last.r = RTrue) => Dev_Attach(kern, Obj, {}).r = RTrue

\* C10 as amended: after Create returns a logical volume or a file device,
\* Attach on it returns true; Create of a mirror only initialises the
\* metadata, and on a node with no minor in use Attach on what it returns
\* returns false
C10_CreateYieldsAttachedLeaf ==
  (Ran("Create") /\ last.r = RTrue) =>
    IF Obj.type = "drbd"
    THEN (\A n \in Minors : ~Used(KPre, n)) =>
           (Obj.minor = None /\ Dev_Attach(kern, Obj, {}).r = RFalse)
    ELSE Dev_Attach(kern, Obj, {}).r = RTrue

\* a logical volume was created
C10_Witness ==
  /\ Ran("Create") /\ last.r = RTrue /\ Obj.type = "lv"
  /\ Issued("lvcreate") /\ Obj.minor # None

\* a Shutdown that returned success, right after an Assemble that returned
\* success, on the same object
AssembledThenShutDown ==
  /\ Ran("Shutdown") /\ last.r = RTrue
  /\ last.was # None /\ The(last.was).r = RTrue

NoTrace ==
  CASE Obj.type = "lv" -> kern.lv[Obj.name] = "absent"
    [] Obj.type = "file" -> ~kern.file
    [] Obj.type = "drbd" ->
         \A n \in Pre.minor : ~Configured(kern.minors[n])

\* C12: after a Remove of a device that Create returned reports success, the
\* logical volume, the file or the minor's configuration is gone and Attach
\* for the same unique_id returns false
C12_RemoveLeavesNoTrace ==
  (Ran("Remove") /\ last.made /\ last.r = RTrue) =>
    (NoTrace /\ ~Attachable(kern, Obj))

\* C13: Remove of a logical volume or a file device whose volume or file
\* does not exist returns success and issues neither lvremove nor unlink (so
\* a second Remove succeeds as the first did)
C13_RemoveOfAbsentSucceeds ==
  (/\ Ran("Remove") /\ Obj.type \in {"lv", "file"}
   /\ IF Obj.type = "lv" THEN KPre.lv[Obj.name] = "absent" ELSE ~KPre.file) =>
    (last.r = RTrue /\ Log = <<>>)

\* C14: Shutdown of a device with children calls no method of a child, leaves
\* every child's dev_path, major and minor as they were, and every child
\* that could be attached before can be attached after
C14_ShutdownLeavesChildren ==
  (Ran("Shutdown") /\ Obj.kids # <<>>) =>
    /\ \A i \in DOMAIN Log : Log[i].k = "cmd"
    /\ Obj.kids = Pre.kids
    /\ \A i \in DOMAIN Obj.kids :
         Attachable(KPre, Pre.kids[i]) => Attachable(kern, Obj.kids[i])

\* a mirror over two attached logical volumes was taken down
C14_Witness ==
  /\ Ran("Shutdown") /\ Obj.kids # <<>> /\ last.r = RTrue /\ Issued("down")
  /\ \A i \in DOMAIN Obj.kids :
       Obj.kids[i].minor # None /\ Attachable(kern, Obj.kids[i])

\* the returns of Attach in the log (a device never calls Attach on a child),
\* and the calls of Assemble on the device itself
AttachReturns == {i \in DOMAIN Log : Log[i].k = "ret" /\ Log[i].a = "Attach"}
OwnAssembles ==
  {i \in DOMAIN Log : /\ Log[i].k = "call" /\ Log[i].a = "Assemble"
                      /\ \E j \in AttachReturns : Log[j].t = Log[i].t}

\* C15: AttachOrAssemble returns a device whose last Attach returned true, or
\* raises; it calls Assemble only after the first Attach returned false
C15_AttachOrAssembleAttached ==
  last.op = "AttachOrAssemble" =>
    /\ IF dev = None THEN IsErr(last.r)
       ELSE /\ last.r = RDevice
            /\ \E j \in AttachReturns :
                 /\ j = Len(Log) /\ Log[j].r = RTrue
                 /\ Obj.type # "file" => Obj.minor # None
    /\ \A i \in OwnAssembles :
         \E j \in AttachReturns :
           /\ j < i /\ Log[j].r = RFalse
           /\ \A h \in AttachReturns : h >= j

\* the first Attach failed, Assemble ran, and the device came back attached
C15_Witness ==
  /\ last.op = "AttachOrAssemble" /\ dev # None /\ last.r = RDevice
  /\ OwnAssembles # {} /\ Obj.type = "drbd" /\ Issued("net")

\* the commands that change the kernel's configuration
Mutating == {"lvchange", "create-md", "disk", "net", "disconnect", "down"}
\* the log entries of a module-level function, after its caller built the
\* children
Inside(entry) ==
  {i \in DOMAIN Log : \E j \in DOMAIN Log :
     j < i /\ Log[j].k = "call" /\ Log[j].a = entry}

\* C16: FindDevice returns an attached device or None, and issues no command
\* that activates or reconfigures a device
C16_FindDeviceOnlyLooks ==
  last.op = "FindDevice" =>
    /\ dev # None =>
         \E j \in AttachReturns : j = Len(Log) /\ Log[j].r = RTrue
    /\ \A i \in Inside("FindDevice") :
         ~(Log[i].k = "cmd" /\ Log[i].a \in Mutating)

\* the module-level functions, and the entries of the log where one of them
\* is entered with a tag outside the dispatch table
EntryPoints == {"FindDevice", "AttachOrAssemble", "Create"}
BadTagEntries ==
  {j \in DOMAIN Log : /\ Log[j].k = "call" /\ Log[j].a = last.op
                      /\ Log[j].t \notin DEV_MAP}

\* C17: FindDevice, AttachOrAssemble and Create called with a tag outside the
\* dispatch table raise ProgrammerError, construct no device and issue no
\* command
C17_BadTagRaisesFirst ==
  (last.op \in EntryPoints /\ BadTagEntries # {}) =>
    /\ last.r = ErrProgrammer /\ dev = None
    /\ BadTagEntries = {Len(Log)}
    /\ (trees \subseteq Leaves) => kern = KPre

\* FindDevice was called with the tag md_raid1 for a mirror
C17_Witness ==
  /\ last.op = "FindDevice" /\ last.r = ErrProgrammer
  /\ Log[Len(Log)] = Call("FindDevice", "md_raid1")
  /\ \E n \in Minors : Used(kern, n)

\* the input and the output of a function that only reads, once it has run
Answer(fn) == probe # None /\ The(probe).fn = fn /\ The(probe).out # None
In == The(probe).in
Out == The(The(probe).out)

\* the GetSyncStatus of a device and of every device below it
RECURSIVE SubtreeStatuses(_)
SubtreeStatuses(d) ==
  {GetSyncStatus(d)} \cup UNION {SubtreeStatuses(d.kids[i]) : i \in DOMAIN d.kids}

Unconfigured == {i \in DOMAIN In : In[i].cs = "Unconfigured"}
InUse == {In[i].minor : i \in DOMAIN In \ Unconfigured}
Highest == CHOOSE x \in InUse : \A y \in InUse : y <= x
Returns(n) == Out = [err |-> FALSE, n |-> n]

C20_FailsWhen255InUse ==
  Answer("_FindUnusedMinor") =>
    /\ 255 \in InUse => Out.err
    /\ ~Out.err => Out.n <= 255

\* C20 as amended: when minor 255 is in use and no line reads Unconfigured
\* the allocator fails; when a line reads Unconfigured it returns that minor
\* even with 255 in use; it never returns a minor above 255
C20_FailsWhen255InUseAndNoneFree ==
  Answer("_FindUnusedMinor") =>
    /\ (255 \in InUse /\ Unconfigured = {}) => Out.err
    /\ (255 \in InUse /\ Unconfigured # {}) => ~Out.err
    /\ ~Out.err => Out.n <= 255

\* minors 0 and 255 are in use, none reads Unconfigured, the allocator failed
C20_Witness ==
  /\ Answer("_FindUnusedMinor")
  /\ InUse = {0, 255} /\ Unconfigured = {} /\ Out.err

\* _AssembleNet was asked for, and it returned
NetAsked == probe # None /\ The(probe).fn = "_AssembleNet"
NetReturned(b) == NetAsked /\ The(probe).out = Some(b)

\* C21: _AssembleNet with four endpoints returns after at most ten reads of
\* drbdsetup show; it returns true only when the net command worked and the
\* last read reported both addresses equal to the ones asked for, and false
\* only when the net command failed or the time ran out
C21_NetAttachTerminates ==
  /\ [](NetAsked =>
         /\ The(probe).polls <= 10
         /\ NetReturned(TRUE) =>
              /\ The(probe).in.cmd_ok
              /\ \E info \in The(probe).read :
                   /\ info.local_addr = Some(The(probe).in.ep.l)
                   /\ info.remote_addr = Some(The(probe).in.ep.r)
         /\ NetReturned(FALSE) =>
              (~The(probe).in.cmd_ok \/ The(probe).clock >= 10))
  /\ [](NetAsked => <>(NetReturned(TRUE) \/ NetReturned(FALSE)))

\* the kernel reported our addresses from the fourth second on
C21_Witness ==
  /\ NetReturned(TRUE) /\ The(probe).in.from = 4 /\ The(probe).polls > 2

\* the disk drbdsetup show reported for the device's minor before the call
HadLocalDisk == GetDevInfo(KPre, The(Pre.minor)).local_dev # None

\* C22: AddChildren of two devices on an attached mirror: when the kernel
\* reports a local disk it raises already-attached with no child opened and
\* no command issued; when it succeeds, create-md came first, drbdsetup disk
\* on the device's own minor after it, and the children are the ones passed;
\* when it raises, the children list is the one from before
C22_AddChildren ==
  Ran("AddChildren") /\ Pre.minor # None /\ Len(last.arg) = 2 =>
    /\ HadLocalDisk => last.r = Err.attached /\ Log = <<>>
    /\ \A j \in DOMAIN Log :
         IsCmd(j, "disk") =>
           /\ Log[j].t = DevPath(The(Pre.minor))
           /\ \E i \in 1 .. j - 1 : IsCmd(i, "create-md")
    /\ ~IsErr(last.r) =>
         /\ ~HadLocalDisk
         /\ Issued("create-md") /\ Issued("disk")
         /\ Obj.kids = last.arg
    /\ IsErr(last.r) => Obj.kids = Pre.kids

\* a diskless mirror got its two children
C22_Witness ==
  /\ Ran("AddChildren") /\ last.r = RNone
  /\ Pre.kids = <<>> /\ Len(Obj.kids) = 2
  /\ GetDevInfo(kern, The(Obj.minor)).local_dev = Obj.kids[1].dev_path

\* the paths passed are those of the children recorded before the call
PathsMatch ==
  /\ Len(last.arg) = 2 /\ Len(Pre.kids) = 2
  /\ \A i \in 1 .. 2 : Some(last.arg[i]) = Pre.kids[i].dev_path

\* C23: RemoveChildren empties the children list exactly when drbdsetup
\* detach was issued and succeeded; detach is issued only on a device with a
\* minor whose kernel side reports a local disk and for paths equal to the
\* children's; with no local disk reported nothing is issued and nothing
\* changes; a path mismatch and a failed detach raise, children as before
C23_RemoveChildren ==
  Ran("RemoveChildren") =>
    /\ (Pre.kids # <<>> /\ Obj.kids = <<>>) <=> (Issued("detach") /\ ~IsErr(last.r))
    /\ Obj.kids # <<>> => Obj.kids = Pre.kids
    /\ Issued("detach") =>
         /\ Pre.minor # None /\ HadLocalDisk /\ PathsMatch
         /\ Log = <<Cmd("detach", DevPath(The(Pre.minor)))>>
         /\ IsErr(last.r) <=> kern.minors[The(Pre.minor)].disk # None
         /\ IsErr(last.r) => last.r = Err.detach
    /\ Pre.minor # None /\ ~HadLocalDisk =>
         Log = <<>> /\ last.r = RNone /\ Obj = Pre /\ kern = KPre
    /\ Pre.minor # None /\ HadLocalDisk /\ Len(Pre.kids) = 2 /\ Len(last.arg) = 2
         /\ ~PathsMatch => last.r = Err.mismatch
    /\ IsErr(last.r) => Obj.kids = Pre.kids

\* the mirror let its disk go and forgot its two children
C23_Witness ==
  /\ Ran("RemoveChildren") /\ last.r = RNone /\ Issued("detach")
  /\ Len(Pre.kids) = 2 /\ Obj.kids = <<>>
  /\ kern.minors[The(Obj.minor)].disk = None

\* C24: Rename of a volume to another volume group raises ProgrammerError
\* and issues no lvrename; a failed lvrename leaves name and dev_path as they
\* were; a successful one sets the name and the dev_path of the new name
\* and nothing else; unique_id is never changed; Rename of a mirror raises
\* ProgrammerError and changes nothing
C24_Rename ==
  Answer("Rename") =>
    /\ In.o.type = "lv" /\ Len(In.new_id) = 2 /\ In.new_id[1] # "vg" =>
         Out.r = ErrProgrammer /\ Out.log = <<>> /\ Out.o = In.o /\ Out.k = In.k
    /\ In.o.type = "lv" /\ Out.r = Err.rename =>
         Out.o.name = In.o.name /\ Out.o.dev_path = In.o.dev_path
    /\ In.o.type = "lv" /\ ~IsErr(Out.r) =>
         /\ Out.log = <<Cmd("lvrename", In.o.name)>>
         /\ Out.o = [In.o EXCEPT !.name = In.new_id[2],
                                 !.dev_path = Some(LvPath(In.new_id[2]))]
    /\ Out.o.unique_id = In.o.unique_id
    /\ In.o.type = "drbd" =>
         Out.r = ErrProgrammer /\ Out.log = <<>> /\ Out.o = In.o /\ Out.k = In.k

\* volume b became volume n
C24_Witness ==
  /\ Answer("Rename") /\ Out.r = RNone
  /\ In.o.name = "b" /\ Out.o.name = "n" /\ Out.o.dev_path = Some(LvPath("n"))
  /\ Out.k.lv["n"] = "active" /\ Out.k.lv["b"] = "absent"

\* the name of child c of the device Assemble was called on
Kid(c) == Pre.kids[c].name
Before(i, j) == i \in DOMAIN Log /\ j \in DOMAIN Log /\ i < j

\* C25: BlockDev.Assemble assembles the children in list order, each once;
\* Open of a child is invoked right after its Assemble returned True and
\* before the Assemble of the next child; no child whose Assemble returned
\* False is opened
C25_AssembleThenOpenInOrder ==
  Ran("Assemble") =>
    \A j \in DOMAIN Log : \A c \in DOMAIN Pre.kids :
      /\ Called(j, "Assemble", Kid(c)) =>
           /\ \A i \in DOMAIN Log : Called(i, "Assemble", Kid(c)) => i = j
           /\ \A b \in 1 .. c - 1 :
                \E i, p \in 1 .. j - 1 :
                  /\ i < p
                  /\ Called(i, "Assemble", Kid(b)) /\ Called(p, "Open", Kid(b))
      /\ Called(j, "Open", Kid(c)) =>
           /\ Before(j - 1, j) /\ Returned(j - 1, "Assemble", Kid(c), RTrue)
           /\ \A i \in 1 .. j : \A n \in c + 1 .. Len(Pre.kids) :
                ~Called(i, "Assemble", Kid(n))
      /\ Returned(j, "Assemble", Kid(c), RFalse) =>
           \A i \in DOMAIN Log : ~Called(i, "Open", Kid(c))

\* both children were assembled and opened, the first before the second
C25_Witness ==
  /\ Ran("Assemble") /\ Len(Pre.kids) = 2
  /\ \E i, j, p, q \in DOMAIN Log :
       /\ i < j /\ j < p /\ p < q
       /\ Called(i, "Assemble", Kid(1)) /\ Called(j, "Open", Kid(1))
       /\ Called(p, "Assemble", Kid(2)) /\ Called(q, "Open", Kid(2))

\* C27: when the loop of BlockDev.Assemble fails, Shutdown is invoked in
\* list order and only on children assembled before: not on the child whose
\* Assemble returned False and not on the children after it
C27_ShutsOnlyAssembledChildren ==
  Ran("Assemble") =>
    \A j \in DOMAIN Log : \A c \in DOMAIN Pre.kids :
      Returned(j, "Assemble", Kid(c), RFalse) =>
        \A i \in DOMAIN Log : \A n \in c .. Len(Pre.kids) :
          ~Called(i, "Shutdown", Kid(n))

\* caller p of two concurrent Assemble calls
Caller(p) == The(probe).pr[p]
Racing == probe # None /\ The(probe).fn = "Assemble"

\* C26: when two Assemble calls on a node have both run _FindUnusedMinor
\* and neither has issued a command for its minor yet, both hold the same
\* minor
C26_BothObtainTheSameMinor ==
  Racing /\ Caller(1).pc = "local" /\ Caller(2).pc = "local" =>
    Caller(1).minor # None /\ Caller(1).minor = Caller(2).minor

\* both calls returned True and both objects are bound to one minor
C26_Witness ==
  /\ Racing /\ Caller(1).r = Some(RTrue) /\ Caller(2).r = Some(RTrue)
  /\ Caller(1).o.minor # None /\ Caller(1).o.minor = Caller(2).o.minor
  /\ Caller(1).minor # None /\ Caller(2).minor # None

\* minor n as Attach found it: in use, local storage ours, net not ours and
\* no local address reported
PartlyOurs(n) ==
  LET Is(info) == /\ MatchesLocal(Pre, info) /\ ~MatchesNet(Pre, info)
                  /\ info.local_addr = None
  IN  Used(KPre, n) /\ Is(GetDevInfo(KPre, n))
\* Attach returned True bound to minor n
BoundTo(n) == last.r = RTrue /\ Obj.minor = Some(n)
\* the scan of Attach came to minor n: it neither stopped at nor raised on a
\* minor before it
ScanReached(n) ==
  \A m \in 0 .. n - 1 :
    Used(KPre, m) =>
      /\ ~BoundTo(m)
      /\ ~(IsErr(last.r) /\ Log # <<>> /\ Log[Len(Log)].t = DevPath(m))

\* C28: on a minor in use whose local storage is ours, whose net is not and
\* which reports no local address, Attach issues drbdsetup net once with our
\* endpoints and binds the minor exactly when the command and its poll
\* succeeded, so that drbdsetup show reports our endpoints; else it goes on
\* to the next minor, this one not bound and no other command issued on it
C28_PartialAttachment ==
  Ran("Attach") /\ Pre.type = "drbd" =>
    \A n \in Minors :
      PartlyOurs(n) /\ ScanReached(n) =>
        /\ Cardinality({j \in DOMAIN Log : Log[j] = Cmd("net", DevPath(n))}) = 1
        /\ \A j \in DOMAIN Log : Log[j].t = DevPath(n) => IsCmd(j, "net")
        /\ BoundTo(n) <=> MatchesNet(Pre, GetDevInfo(kern, n))
        /\ BoundTo(n) =>
             last.f \cap {"net", "poll"} = {} /\ kern.minors[n].net = Pre.ep
        /\ ~BoundTo(n) => last.f \cap {"net", "poll"} # {}
                           \/ kern.minors[n] = KPre.minors[n]

\* a mirror whose disk was attached and whose net was not got its net
C28_Witness ==
  /\ Ran("Attach") /\ Pre.type = "drbd"
  /\ \E n \in Minors :
       /\ PartlyOurs(n) /\ ScanReached(n) /\ BoundTo(n)
       /\ KPre.minors[n].net = None /\ kern.minors[n].net = Pre.ep

\* the commands of one tool in the log of the last operation
CmdsOf(tool) == {j \in DOMAIN Log : IsCmd(j, tool)}

\* C29 (order): in DRBD8.Assemble the local attach comes before the net
\* attach on the same minor; when the net attach fails after the local
\* attach, drbdsetup down on that minor follows, whatever it returns, and
\* Assemble returns False
C29_LocalThenNetThenTeardown ==
  Ran("Assemble") /\ Pre.type = "drbd" =>
    \A i \in CmdsOf("disk") :
      /\ \A j \in CmdsOf("net") : Log[j].t = Log[i].t => i < j
      /\ \A j \in CmdsOf("net") :
           Log[j].t = Log[i].t /\ last.r # RTrue =>
             /\ last.r = RFalse
             /\ j + 1 = Len(Log) /\ Log[j + 1] = Cmd("down", Log[i].t)

\* C29 (already attached): Assemble on a device that holds a minor returns
\* True, assembles no child and issues no disk and no net command
C29_AttachedAssembleIssuesNothing ==
  Ran("Assemble") /\ Pre.type = "drbd" /\ Pre.minor # None =>
    /\ last.r = RTrue
    /\ \A j \in DOMAIN Log : Log[j].k = "cmd"
    /\ CmdsOf("disk") = {} /\ CmdsOf("net") = {}

\* the minors the children of the device hold
ChildMinors == UNION {Obj.kids[c].minor : c \in DOMAIN Obj.kids}

\* C30 (Assemble): after DRBD8.Assemble returned False, no minor that was
\* free before the call, the children's own aside, carries a disk or a net
C30_FailedAssembleLeavesNoResidue ==
  Ran("Assemble") /\ Pre.type = "drbd" /\ last.r = RFalse =>
    \A n \in Minors \ ChildMinors :
      ~Used(KPre, n) => kern.minors[n].disk = None /\ kern.minors[n].net = None

\* C30 (Attach): after DRBD8.Attach returned False, every minor that had a
\* peer before the call still has it
C30_FailedAttachKeepsPeers ==
  Ran("Attach") /\ Pre.type = "drbd" /\ last.r = RFalse =>
    \A n \in Minors :
      KPre.minors[n].net # None => kern.minors[n].net = KPre.minors[n].net

\* C30: a failed operation of the mirror leaves the kernel as it was or
\* torn down
C30_FailureLeavesKernelClean ==
  C30_FailedAssembleLeavesNoResidue /\ C30_FailedAttachKeepsPeers

\* C31: DRBD8.Shutdown attaches when it holds no minor, then issues
\* drbdsetup down, then clears minor and dev_path: with no minor held and
\* none found it returns True and issues no down; down is issued once, last,
\* on the minor held; when down fails it returns False and minor and
\* dev_path stay; Remove leaves what Shutdown leaves and returns what it
\* returns
C31_ShutdownAndRemoveOfMirror ==
  (Ran("Shutdown") \/ Ran("Remove")) /\ Pre.type = "drbd" =>
    /\ ~Issued("down") /\ ~IsErr(last.r) =>
         last.r = RTrue /\ Pre.minor = None /\ Obj.minor = None
    /\ Issued("down") =>
         /\ CmdsOf("down") = {Len(Log)}
         /\ Pre.minor # None => Log = <<Cmd("down", DevPath(The(Pre.minor)))>>
         /\ last.r \in {RTrue, RFalse}
         /\ last.r = RFalse =>
              /\ Obj.minor # None /\ Obj.dev_path = Some(Log[Len(Log)].t)
              /\ Log[Len(Log)].t = DevPath(The(Obj.minor))
              /\ Pre.minor # None => Obj = Pre /\ kern = KPre
         /\ last.r = RTrue =>
              /\ Obj.minor = None /\ Obj.dev_path = None
              /\ \E n \in Minors : /\ Log[Len(Log)].t = DevPath(n)
                                    /\ ~Configured(kern.minors[n])
    /\ Ran("Remove") =>
         Res(kern, Obj, last.r, Log) = DRBD8_Shutdown(KPre, Pre, last.f)

\* a Shutdown that had to attach first and whose drbdsetup down failed
C31_Witness ==
  /\ Ran("Shutdown") /\ Pre.type = "drbd" /\ Pre.minor = None
  /\ Issued("down") /\ last.r = RFalse /\ Obj.minor # None


\* C32: a SetSyncSpeed call on a device with children invokes SetSyncSpeed on
\* every child, whatever the earlier children returned, and the result is
\* true exactly when every child and, for a mirror, its own syncer command
\* succeeded; a mirror that is not attached returns false
C32_ForwardedToEveryChild ==
  Answer("SetSyncSpeed") =>
    /\ \A i \in 1..Len(In.o.kids) :
         \E j \in 1..Len(Out.log) : Out.log[j] = Call("SetSyncSpeed", In.o.kids[i].name)
    /\ In.o.type = "drbd" /\ In.o.minor = None => ~Out.r

\* C32, the part about the result: it is true exactly when no child that was
\* called returned false, every child was called, and the mirror's own
\* syncer command was issued and succeeded
C32_ResultOfSetSyncSpeed ==
  Answer("SetSyncSpeed") =>
    (Out.r <=>
       /\ \A i \in 1..Len(In.o.kids) :
            \E j \in 1..Len(Out.log) :
              Out.log[j] = Ret("SetSyncSpeed", In.o.kids[i].name, RTrue)
       /\ In.o.type = "drbd" => In.o.minor # None /\ In.o.name \notin In.fails)


\* a call that reached DRBD8.Create or DRBD8.AddChildren
InitialisingCall ==
  \/ last.op = "AddChildren"
  \/ last.op = "Create" /\ \E i \in DOMAIN Log : Log[i] = Call("Create", "drbd")

\* C33: drbdmeta create-md is issued exactly once in every Create and every
\* AddChildren call of a mirror, and by no other operation
C33_InitMetaExactlyOncePerCall ==
  /\ InitialisingCall => Cardinality(CmdsOf("create-md")) = 1
  /\ Issued("create-md") => InitialisingCall

\* C33 (as amended): create-md is issued at most once in a Create or
\* AddChildren call, exactly once when the call returns normally, and never
\* by another operation, which leaves the metadata on the node as it was
C33_InitMetaOnlyByCreateAndAddChildren ==
  /\ Cardinality(CmdsOf("create-md")) <= 1
  /\ InitialisingCall /\ ~IsErr(last.r) => Cardinality(CmdsOf("create-md")) = 1
  /\ Issued("create-md") => InitialisingCall
  /\ last.op \in {"New", "FindDevice", "AttachOrAssemble", "Attach", "Assemble",
                  "Open", "Shutdown", "RemoveChildren"} =>
       kern.md = KPre.md

C33_Witness ==
  /\ last.op = "AddChildren" /\ ~IsErr(last.r)
  /\ Cardinality(CmdsOf("create-md")) = 1
  /\ LvPath("m") \in kern.md


\* C34: when Attach returns true the net configuration of the minor it
\* bound matches the endpoints of the device, in what drbdsetup show reports
\* of the minor since the last read of the call and in the kernel
C34_BoundMinorHasOurEndpoints ==
  Ran("Attach") /\ Pre.type = "drbd" /\ last.r = RTrue =>
    /\ Obj.minor # None
    /\ MatchesNet(Pre, GetDevInfo(kern, The(Obj.minor)))
    /\ GetDevInfo(kern, The(Obj.minor)).local_addr = Some(The(Pre.ep).l)
    /\ GetDevInfo(kern, The(Obj.minor)).remote_addr = Some(The(Pre.ep).r)
    /\ kern.minors[The(Obj.minor)].net = Pre.ep

\* Attach bound a minor that was connected to another peer when the call began
C34_Witness ==
  /\ Ran("Attach") /\ Pre.type = "drbd" /\ last.r = RTrue
  /\ Pre.minor = None
  /\ KPre.minors[The(Obj.minor)].net \notin {None, Pre.ep}
  /\ Issued("disconnect") /\ Issued("net")


\* C35: when Attach returns true, the minor it bound either has no local
\* disk, whether or not the device has children, or has the backing and the
\* meta device of the device (index 0); a device without children is never
\* bound to a minor with a disk
C35_BoundMinorHasOurDiskOrNone ==
  Ran("Attach") /\ Pre.type = "drbd" /\ last.r = RTrue =>
    LET info == GetDevInfo(kern, The(Obj.minor))
    IN  \/ info.local_dev = None
        \/ /\ Pre.kids # <<>>
           /\ MatchesLocal(Pre, info)
           /\ info.local_dev = Pre.kids[1].dev_path
           /\ info.meta_dev = Pre.kids[2].dev_path

\* a device with children bound to a diskless minor
C35_Witness ==
  /\ Ran("Attach") /\ Pre.type = "drbd" /\ last.r = RTrue
  /\ Pre.kids # <<>> /\ Pre.minor = None
  /\ GetDevInfo(kern, The(Obj.minor)).local_dev = None


\* the minors Attach sent drbdsetup net or disconnect to
Reconfigured ==
  {n \in Minors : \E j \in DOMAIN Log :
                    Log[j] \in {Cmd("net", DevPath(n)), Cmd("disconnect", DevPath(n))}}

\* C36: Attach issues no command but net and disconnect, and only against
\* minors of which drbdsetup show reported, when the call began, a local
\* configuration that matches the device and a net configuration that does
\* not; such a minor has no disk or the disk of the device
C36_ReconfiguresOnlyOurMinors ==
  Ran("Attach") /\ Pre.type = "drbd" =>
    /\ \A j \in DOMAIN Log : Log[j].k = "cmd" => Log[j].a \in {"net", "disconnect"}
    /\ \A n \in Reconfigured :
         /\ MatchesLocal(Pre, GetDevInfo(KPre, n))
         /\ ~MatchesNet(Pre, GetDevInfo(KPre, n))
         /\ \/ KPre.minors[n].disk = None /\ Pre.kids = <<>>
            \/ /\ Pre.kids # <<>>
               /\ {d.dev : d \in KPre.minors[n].disk} = Pre.kids[1].dev_path

\* Attach disconnected a minor that has the disk of the device and was
\* connected to another peer
C36_Witness ==
  /\ Ran("Attach") /\ Pre.type = "drbd"
  /\ \E n \in Reconfigured :
       /\ Cmd("disconnect", DevPath(n)) \in {Log[j] : j \in DOMAIN Log}
       /\ KPre.minors[n].disk # None
       /\ GetDevInfo(KPre, n).remote_addr \notin {None, Some(The(Pre.ep).r)}


\* C37: a mirror object has a dev_path exactly when it has a minor, the path
\* is /dev/drbd{minor}, its major is 147, and Attach returned true exactly
\* when the object has a minor after the call
C37_MinorAndPathAgree ==
  dev # None /\ Obj.type = "drbd" =>
    /\ Obj.dev_path # None <=> Obj.minor # None
    /\ Obj.minor # None => Obj.dev_path = Some(DevPath(The(Obj.minor)))
    /\ Obj.major = Some(DRBD_MAJOR)
    /\ Ran("Attach") => (last.r = RTrue <=> Obj.minor # None)

\* a Shutdown that took the minor and the path from a mirror whose children
\* had been added by AddChildren
C37_Witness ==
  /\ Ran("Shutdown") /\ Obj.type = "drbd" /\ last.r = RTrue
  /\ Pre.minor # None /\ Pre.dev_path # None /\ Pre.name = "D1" /\ Pre.kids # <<>>
  /\ Obj.minor = None /\ Obj.dev_path = None


\* the two Assemble calls did not overlap: one had not begun or had
\* returned whenever the other took a step
Serialised == Racing /\ ~The(probe).overlapped

\* both calls returned True and both objects hold a minor: the two differ
DistinctMinors ==
  Racing /\ Caller(1).r = Some(RTrue) /\ Caller(2).r = Some(RTrue) =>
    /\ Caller(1).o.minor # None /\ Caller(2).o.minor # None
    /\ Caller(1).o.minor # Caller(2).o.minor

\* C38: when the Assemble calls on a node run one after the other, two
\* devices that both returned success from Assemble never hold the same
\* minor, devices without children and without endpoints included
C38_SerialisedAssemblesHoldDistinctMinors == Serialised => DistinctMinors

\* C38 for devices that have children or endpoints
C38_ConfiguredDevicesHoldDistinctMinors ==
  Serialised /\ (\A p \in 1 .. 2 : Caller(p).o.ep # None \/ Caller(p).o.kids # <<>>)
    => DistinctMinors


\* C39: the minor _FindUnusedMinor returns is never one listed with a
\* connection state other than Unconfigured
C39_ReturnsNoMinorInUse ==
  Answer("_FindUnusedMinor") /\ ~Out.err => Out.n \notin InUse

\* a minor returned from a content that lists lower and higher minors in use
C39_Witness ==
  /\ Answer("_FindUnusedMinor") /\ ~Out.err
  /\ \E lo \in InUse, hi \in InUse : lo < Out.n /\ Out.n < hi


====
